---------------------------- MODULE Spec2Model ----------------------------
(***************************************************************************)
(* State-machine model of the transport layer of the A2A Python client     *)
(* (docs/api/sdks/python/a2a_client.py, class A2AClient): the two          *)
(* channels, the pending table _message_queue, the inbound listener task,  *)
(* the per-send deadline of asyncio.wait_for, disconnect, and the retry    *)
(* loop that wraps every send.                                             *)
(*                                                                         *)
(* asyncio runs one task at a time and switches tasks only at an await:    *)
(* every action below is the code between two awaits of one task.          *)
(* asyncio.wait_for is modelled by its documented contract: it returns the *)
(* future's result when the future completes before the deadline, and at   *)
(* the deadline it cancels a still-pending future and raises TimeoutError  *)
(* in the waiting task when that task next runs.                           *)
(*                                                                         *)
(* Spec explores the transport under concurrent calls; FairSpec adds that  *)
(* every calling task keeps running. SpecCorrelated is one call on the     *)
(* stream whose message may carry a correlation id. SpecOneCall follows    *)
(* one message from the caller that built it through validate_message,     *)
(* send_message, the attempts and delays of _execute_with_retry, and the   *)
(* serialisation and deserialisation at the channel; FairOneCall adds the  *)
(* fairness under which the call ends. SpecEnv is Spec with a server that  *)
(* also sends frames matching nothing and callers whose tasks can be       *)
(* cancelled. SpecEngine is the target resolver and coordination engine    *)
(* that the client hands its messages to, modelled from their              *)
(* specification.                                                          *)
(***************************************************************************)
EXTENDS Integers, Sequences, FiniteSets, TLC

(* ------------------------------ bounds --------------------------------- *)

\* Frames the stream can hold between the server and the listener.
MaxInbound == 1

\* The value of an execution timeout that a message sets.
MsgTimeout == 5

\* RetryPolicy.max_retries as configured for the sessions explored.
MaxRetries == 1

\* The longest agent_ids list of a Multiple target.
MaxAgentIds == 2

\* The largest max_agents, replication_factor and minimum_participants a
\* caller passes.
MaxCount == 2

\* A base_delay above the default, and a max_delay low enough to cap it.
MaxBaseDelay == 2
LowMaxDelay == 3

\* Longest id list of a Multiple target given to the resolver.
MaxListLen == 3

\* Most agents a coordination is dispatched to.
MaxVoters == 5

\* Most stages of a pipeline.
MaxStages == 3

(* ------------------------- program constants --------------------------- *)

\* A2AClientConfig.timeout
DefaultTimeout == 30

\* RetryPolicy: max_retries, base_delay, max_delay
DefaultMaxRetries == 3
DefaultBaseDelay == 1
DefaultMaxDelay == 30


\* RetryPolicy.retryable_errors, the default list.
DefaultRetryable == {"NETWORK_TIMEOUT", "CONNECTION_FAILED"}

\* The application tasks; each calls send_message once.
Callers == {"c1", "c2"}

\* Optional values: <<>> is None, <<v>> is v.
None == <<>>
Some(v) == <<v>>
IsNone(o) == o = <<>>
Get(o) == o[1]

\* Message ids. A caller may supply one; otherwise send_message generates
\* one, unique to the call (timestamp plus random suffix).
UserIds == {<<"usr", "k">>}
GenerateMessageId(c) == <<"msg", c>>
AllIds == UserIds \cup {GenerateMessageId(c) : c \in Callers}

\* ExecutionContext: absent, present without a timeout, present with one.
ExecutionContext == {[timeout |-> None], [timeout |-> Some(MsgTimeout)]}
Executions == {None} \cup {Some(e) : e \in ExecutionContext}

\* A2AMessage, reduced to the fields the transport reads.
A2AMessage == [id : {None} \cup {Some(k) : k \in UserIds}, execution : Executions]

\* The messages the callers send: without an id and without an execution
\* context (the high-level helpers build these), and with a caller-supplied
\* id and an execution context that sets a timeout or leaves it unset.
Messages ==
    {m \in A2AMessage : IsNone(m.id) <=> IsNone(m.execution)}

\* The exceptions of the client, as (type, code) pairs; CancelledError is
\* asyncio's and derives from BaseException, not Exception.
\* `details` names the type of the exception an A2AClientError wraps.
A2AClientError(details) ==
    [type |-> "A2AClientError", code |-> "A2A_CLIENT_ERROR", details |-> details]
A2ATimeoutError ==
    [type |-> "A2ATimeoutError", code |-> "A2A_TIMEOUT_ERROR", details |-> "None"]
A2AConnectionError ==
    [type |-> "A2AConnectionError", code |-> "A2A_CONNECTION_ERROR", details |-> "None"]
CancelledError ==
    [type |-> "CancelledError", code |-> "CancelledError", details |-> "None"]
RuntimeError ==
    [type |-> "RuntimeError", code |-> "RuntimeError", details |-> "None"]
\* `except Exception` catches everything but asyncio.CancelledError.
IsException(e) == e.type # "CancelledError"

\* Frames the server can put on the stream: a response carrying a
\* correlation id, or a frame of another type.
Response(k) == [type |-> "response", correlation_id |-> Some(k)]
OtherFrame == [type |-> "event", correlation_id |-> None]

\* A call has one future at a time, the one its current attempt created
\* (NoStaleEntry: no entry of the table outlives into the next attempt),
\* so a future is named by its call.
Handles == Callers
NoHandle == "nobody"

VARIABLES
    cfg,        \* A2AClientConfig: websocket_enabled, retry_policy
    http,       \* _http_session: "none" | "open" | "closed"
    ws,         \* _websocket: "none" | "open" | "closing" | "closed"
    life,       \* position of the task that runs connect() and disconnect()
    listener,   \* whether the _websocket_message_handler task is running
    queue,      \* _message_queue: message id -> future
    fut,        \* state of every future: "pending" | "result" | "cancelled"
    inbound,    \* frames sent by the server, not yet read by the listener
    task,       \* the send_message call of every caller
    removedBy,  \* history: who deleted the entry of each call's current future
    message,    \* the A2AMessage object a caller built, as send_message sees it
    errors,     \* what A2AUtils.validate_message returned for it, if called
    retry,      \* _execute_with_retry for that message: loop position, sleeps
    engine      \* the remote coordination of one dispatched message

\* The transport state, and the state of one call followed through
\* validation, the retry loop, serialisation and deserialisation.
transport == <<http, ws, life, listener, queue, fut, inbound, task, removedBy>>
single == <<message, errors, retry>>

vars == <<cfg, http, ws, life, listener, queue, fut, inbound, task, removedBy,
          message, errors, retry, engine>>

(* ------------------------ the pending table ---------------------------- *)

\* self._message_queue[k] = h
Put(q, k, h) == [x \in DOMAIN q \cup {k} |-> IF x = k THEN h ELSE q[x]]

\* Mutant of Pop: the whole table is dropped instead of one key.
PopClears(q, k) == [x \in {} |-> q[x]]

\* Mutant of Pop: nothing is removed.
PopKeeps(q, k) == q

\* self._message_queue.pop(k, None)
Pop(q, k) == [x \in DOMAIN q \ {k} |-> q[x]]

EmptyQueue == [x \in {} |-> NoHandle]

\* The future an entry holds, NoHandle when there is no entry.
Lookup(q, k) == IF k \in DOMAIN q THEN q[k] ELSE NoHandle

\* History of a deletion of key k from q by `who`.
NoteRemoval(q, k, who) ==
    IF k \in DOMAIN q
    THEN [removedBy EXCEPT ![q[k]] = Append(@, who)]
    ELSE removedBy

(* ----------------------------- the tasks ------------------------------- *)

IdleTask ==
    [pc |-> "idle", id |-> <<"none", "none">>, execution |-> None, attempt |-> 0,
     timer |-> FALSE, chan |-> "none",
     frames |-> 0, requests |-> 0, cause |-> "none", error |-> None]

Handle(c) == c

Init ==
    /\ cfg \in [websocket_enabled : BOOLEAN,
                retryable_errors : {DefaultRetryable, {"A2A_CLIENT_ERROR"}},
                max_retries : {MaxRetries},
                timeout : {DefaultTimeout}]
    /\ http = "none"
    /\ ws = "none"
    /\ life = "new"
    /\ listener = FALSE
    /\ queue = EmptyQueue
    /\ fut = [h \in Handles |-> "none"]
    /\ inbound = <<>>
    /\ task = [c \in Callers |-> IdleTask]
    /\ removedBy = [h \in Handles |-> <<>>]
    /\ message = [target |-> None, tool_name |-> None, coordination |-> None,
                  id |-> None, correlation_id |-> None, timestamp |-> None,
                  retry_policy |-> None]
    /\ errors = None
    /\ retry = [pc |-> "built", attempt |-> 0, slept |-> <<>>, sent |-> <<>>,
                error |-> None, response |-> None]
    /\ engine = [pc |-> "idle"]

(* ----------------------- connect and disconnect ------------------------ *)

\* Mutant of Connect: the stream is set up whatever websocket_enabled says.
ConnectIgnoresConfig ==
    /\ life = "new"
    /\ http' = "open"
    /\ life' = "connecting"
    /\ UNCHANGED <<cfg, ws, listener, queue, fut, inbound, task, removedBy>>

\* connect(): the HTTP session is created; with websocket_enabled the task
\* then awaits websockets.connect inside _setup_websocket.
Connect ==
    /\ life = "new"
    /\ http' = "open"
    /\ life' = IF cfg.websocket_enabled THEN "connecting" ELSE "connected"
    /\ UNCHANGED <<cfg, ws, listener, queue, fut, inbound, task, removedBy>>

\* _setup_websocket: the upgrade succeeded; the handler task is started.
SetupWebsocketOk ==
    /\ life = "connecting"
    /\ ws' = "open"
    /\ listener' = TRUE
    /\ life' = "connected"
    /\ UNCHANGED <<cfg, http, queue, fut, inbound, task, removedBy>>

\* Mutant of SetupWebsocketFail: the exception leaves connect(), which is
\* then not connected.
SetupWebsocketFailRaises ==
    /\ life = "connecting"
    /\ ws' = "none"
    /\ life' = "new"
    /\ UNCHANGED <<cfg, http, listener, queue, fut, inbound, task, removedBy>>

\* _setup_websocket: the upgrade raised; a warning is logged, _websocket
\* is None and connect returns normally.
SetupWebsocketFail ==
    /\ life = "connecting"
    /\ ws' = "none"
    /\ life' = "connected"
    /\ UNCHANGED <<cfg, http, listener, queue, fut, inbound, task, removedBy>>

\* disconnect(): the HTTP session is closed (awaited).
DisconnectHttp ==
    /\ life = "connected"
    /\ http' = "closed"
    /\ life' = "disc_http"
    /\ UNCHANGED <<cfg, ws, listener, queue, fut, inbound, task, removedBy>>

\* disconnect(): `if self._websocket: await self._websocket.close()`. While
\* the closing handshake is awaited the stream is neither open nor closed.
DisconnectWs ==
    /\ life = "disc_http"
    /\ ws # "none"
    /\ ws' = IF ws = "open" THEN "closing" ELSE ws
    /\ life' = "disc_ws"
    /\ UNCHANGED <<cfg, http, listener, queue, fut, inbound, task, removedBy>>

\* Mutant of CancelAll: the table is cleared without cancelling.
CancelNone(q) == fut

\* future.cancel() for every future of the table that is not done.
CancelAll(q) ==
    [h \in Handles |->
        IF (\E k \in DOMAIN q : q[k] = h) /\ fut[h] = "pending"
        THEN "cancelled" ELSE fut[h]]

\* disconnect(): after the close returned, without another await: every
\* pending future is cancelled and the table is cleared.
DisconnectCancel ==
    /\ \/ life = "disc_ws"
       \/ life = "disc_http" /\ ws = "none"
    /\ ws' = IF ws = "closing" THEN "closed" ELSE ws
    /\ fut' = CancelAll(queue)
    /\ removedBy' = [h \in Handles |->
                        IF \E k \in DOMAIN queue : queue[k] = h
                        THEN Append(removedBy[h], "disconnect")
                        ELSE removedBy[h]]
    /\ queue' = EmptyQueue
    /\ life' = "disconnected"
    /\ UNCHANGED <<cfg, http, listener, inbound, task>>

(* --------------------------- the retry loop ---------------------------- *)

\* _do_send_message: `except Exception as e: raise A2AClientError(...,
\* details=e)` around both channels.
DoSendMessageRaise(e) ==
    IF IsException(e) THEN A2AClientError(e.type) ELSE e

\* getattr(error, 'code', str(type(error).__name__))
ErrorCode(e) == e.code

\* Mutant of RaisesNow: only the attempt count ends the loop, whatever the
\* error code.
RaisesNowExhaustedOnly(e, attempt) == attempt = cfg.max_retries

\* Mutant of RaisesNow: the attempts are used up one attempt too late.
RaisesNowOffByOne(e, attempt) ==
    \/ ErrorCode(e) \notin cfg.retryable_errors
    \/ attempt = cfg.max_retries + 1

\* _execute_with_retry, `except Exception as error`: whether the error is
\* raised to the caller instead of being retried.
RaisesNow(e, attempt) ==
    \/ ErrorCode(e) \notin cfg.retryable_errors
    \/ attempt = cfg.max_retries

\* The call after an attempt raised e from inside _do_send_message: the
\* error is wrapped, then either raised to the caller of send_message or
\* followed by the backoff sleep.
AttemptRaised(t, e, why) ==
    LET err == DoSendMessageRaise(e) IN
    IF ~IsException(err) \/ RaisesNow(err, t.attempt)
    THEN [t EXCEPT !.pc = "done", !.cause = why, !.error = Some(err),
                   !.execution = None]
    ELSE [t EXCEPT !.pc = "sleep", !.cause = why, !.error = Some(err)]

\* The call after an attempt returned a response.
AttemptReturned(t) ==
    [t EXCEPT !.pc = "done", !.cause = "response", !.error = None,
              !.execution = None]

\* A future that neither the table nor a running attempt refers to is
\* garbage; its state is dropped.
Collect(f, q, c) ==
    IF \E k \in DOMAIN q : q[k] = c THEN f ELSE [f EXCEPT ![c] = "none"]

\* is_connected: the session is open and, when the stream is enabled,
\* the stream is there and open.
IsConnected ==
    /\ http = "open"
    /\ (~cfg.websocket_enabled \/ ws = "open")

(* ------------------------------ dispatch ------------------------------- *)

\* Mutant of UseWebsocket: `if self._websocket`, closed or not.
UseWebsocketUnchecked == ws # "none"

\* _do_send_message: `if self._websocket and not self._websocket.closed`
UseWebsocket == ws # "none" /\ ws # "closed"

\* _send_via_websocket:
\* `message.execution.timeout if message.execution else self.config.timeout`
SendTimeout(execution) ==
    IF ~IsNone(execution) THEN Get(execution).timeout ELSE Some(cfg.timeout)

\* One attempt, from the call of operation() to its first await. t is the
\* call with its attempt number set. On the stream the future is created
\* and stored under the message id and the task awaits websocket.send; on
\* the unary channel the POST is issued, or the attempt fails at once
\* (no session: A2AConnectionError; closed session: aiohttp's RuntimeError).
StartAttempt(c, t) ==
    LET h == c
        t0 == [t EXCEPT !.timer = FALSE, !.frames = 0, !.requests = 0,
                        !.chan = "none"]
    IN
    IF UseWebsocket /\ ws = "none"
    THEN \* _send_via_websocket: `if not self._websocket: raise`
         /\ task' = [task EXCEPT ![c] =
                        AttemptRaised([t0 EXCEPT !.chan = "ws"],
                                      A2AConnectionError, "no_stream")]
         /\ UNCHANGED <<fut, queue, removedBy>>
    ELSE IF UseWebsocket
    THEN /\ task' = [task EXCEPT ![c] =
                        [t0 EXCEPT !.pc = "ws_send", !.chan = "ws"]]
         /\ fut' = [fut EXCEPT ![h] = "pending"]
         /\ removedBy' = [NoteRemoval(queue, t.id, "replaced") EXCEPT ![h] = <<>>]
         /\ queue' = Put(queue, t.id, h)
    ELSE /\ task' = [task EXCEPT ![c] =
                        IF http = "none"
                        THEN AttemptRaised([t0 EXCEPT !.chan = "http"],
                                           A2AConnectionError, "no_session")
                        ELSE IF http = "closed"
                        THEN AttemptRaised([t0 EXCEPT !.chan = "http"],
                                           RuntimeError, "session_closed")
                        ELSE [t0 EXCEPT !.pc = "http_req", !.chan = "http",
                                        !.requests = 1]]
         /\ UNCHANGED <<fut, queue, removedBy>>

\* send_message: the id is generated when the caller gave none, the
\* timestamp is set, and the retry loop makes its first attempt.
SendMessage(c, m) ==
    /\ task[c].pc = "idle"
    /\ StartAttempt(c, [task[c] EXCEPT
            !.id = IF IsNone(m.id) THEN GenerateMessageId(c) ELSE Get(m.id),
            !.execution = m.execution,
            !.attempt = 0])
    /\ UNCHANGED <<cfg, http, ws, life, listener, inbound>>

\* _execute_with_retry: asyncio.sleep(delay) is over; the next attempt.
RetryAttempt(c) ==
    /\ task[c].pc = "sleep"
    /\ StartAttempt(c, [task[c] EXCEPT !.attempt = @ + 1])
    /\ UNCHANGED <<cfg, http, ws, life, listener, inbound>>

(* ------------------------- the stream channel -------------------------- *)

\* Mutant of WebsocketSendOk: the message is also posted on the unary
\* channel.
WebsocketSendOkAlsoPosts(c) ==
    /\ task[c].pc = "ws_send"
    /\ ws = "open"
    /\ task' = [task EXCEPT ![c].pc = "waiting", ![c].frames = @ + 1,
                            ![c].requests = @ + 1]
    /\ UNCHANGED <<cfg, http, ws, life, listener, queue, fut, inbound, removedBy>>

\* `await self._websocket.send(...)` on an open stream: the frame is out
\* and the task enters asyncio.wait_for(future, timeout).
WebsocketSendOk(c) ==
    /\ task[c].pc = "ws_send"
    /\ ws = "open"
    /\ task' = [task EXCEPT ![c].pc = "waiting", ![c].frames = @ + 1]
    /\ UNCHANGED <<cfg, http, ws, life, listener, queue, fut, inbound, removedBy>>

\* Who a pop of key k by call c deletes: its own entry or another call's.
PopTag(c, k, own) ==
    IF Lookup(queue, k) = Handle(c) THEN own ELSE "foreign"

\* `await self._websocket.send(...)` raises ConnectionClosed on a stream
\* that is closing or closed; `except Exception` pops the entry and raises
\* A2AClientError.
WebsocketSendFail(c) ==
    /\ task[c].pc = "ws_send"
    /\ ws # "open"
    /\ removedBy' = NoteRemoval(queue, task[c].id, PopTag(c, task[c].id, "error"))
    /\ queue' = Pop(queue, task[c].id)
    /\ fut' = Collect(fut, queue', c)
    /\ task' = [task EXCEPT ![c] =
                    AttemptRaised(task[c], A2AClientError("ConnectionClosed"),
                                  "send_failed")]
    /\ UNCHANGED <<cfg, http, ws, life, listener, inbound>>

\* The deadline of asyncio.wait_for passes before the future is done: the
\* future is cancelled; the waiting task sees TimeoutError when it runs.
WaitForDeadline(c) ==
    /\ task[c].pc = "waiting"
    /\ ~IsNone(SendTimeout(task[c].execution))
    /\ fut[Handle(c)] = "pending"
    /\ fut' = [fut EXCEPT ![Handle(c)] = "cancelled"]
    /\ task' = [task EXCEPT ![c].timer = TRUE]
    /\ UNCHANGED <<cfg, http, ws, life, listener, queue, inbound, removedBy>>

\* The waiting task runs again with its future done.
\*   result:                _deserialize_response, returned to the caller;
\*   cancelled by deadline: `except asyncio.TimeoutError`: pop, A2ATimeoutError;
\*   cancelled otherwise:   CancelledError, which no `except Exception` catches.
WaitForReturn(c) ==
    /\ task[c].pc = "waiting"
    /\ fut[Handle(c)] # "pending"
    /\ IF fut[Handle(c)] = "result"
       THEN /\ task' = [task EXCEPT ![c] = AttemptReturned(task[c])]
            /\ UNCHANGED <<queue, removedBy>>
       ELSE IF task[c].timer
       THEN /\ removedBy' = NoteRemoval(queue, task[c].id,
                                        PopTag(c, task[c].id, "timeout"))
            /\ queue' = Pop(queue, task[c].id)
            /\ task' = [task EXCEPT ![c] =
                            AttemptRaised(task[c], A2ATimeoutError, "timeout")]
       ELSE /\ task' = [task EXCEPT ![c] =
                            AttemptRaised(task[c], CancelledError, "cancelled")]
            /\ UNCHANGED <<queue, removedBy>>
    /\ fut' = Collect(fut, queue', c)
    /\ UNCHANGED <<cfg, http, ws, life, listener, inbound>>

\* The frames a server sends: a response to a message it was sent, or a
\* frame of another type.
Frames ==
    {Response(task[c].id) : c \in {d \in Callers : task[d].frames > 0}}
        \cup {OtherFrame}

\* The server puts a frame on the open stream.
ServerSend(f) ==
    /\ ws = "open"
    /\ Len(inbound) < MaxInbound
    /\ inbound' = Append(inbound, f)
    /\ UNCHANGED <<cfg, http, ws, life, listener, queue, fut, task, removedBy>>

\* The stream is closed by the server or by a stream error.
RemoteClose ==
    /\ ws = "open"
    /\ ws' = "closed"
    /\ UNCHANGED <<cfg, http, life, listener, queue, fut, inbound, task, removedBy>>

\* Mutant of SetResult: the result is set on a future that is done.
SetResultUnchecked(f, h) == [f EXCEPT ![h] = "result"]

\* `if not future.done(): future.set_result(data)`
SetResult(f, h) ==
    IF f[h] # "pending" THEN f ELSE [f EXCEPT ![h] = "result"]

\* Mutant of HandleFrame: the type of the frame is not looked at.
HandleFrameAnyType ==
    /\ listener
    /\ inbound # <<>>
    /\ LET data == Head(inbound)
           k == Get(data.correlation_id)
       IN
       IF ~IsNone(data.correlation_id) /\ k \in DOMAIN queue
       THEN /\ removedBy' = NoteRemoval(queue, k, "listener")
            /\ queue' = Pop(queue, k)
            /\ fut' = SetResult(fut, queue[k])
       ELSE UNCHANGED <<queue, fut, removedBy>>
    /\ inbound' = Tail(inbound)
    /\ UNCHANGED <<cfg, http, ws, life, listener, task>>

\* _websocket_message_handler, one iteration of `async for`: a frame of
\* type response whose correlation_id is a key of the table pops the entry
\* and sets the future's result unless the future is done.
HandleFrame ==
    /\ listener
    /\ inbound # <<>>
    /\ LET data == Head(inbound)
           k == Get(data.correlation_id)
       IN
       IF data.type = "response" /\ ~IsNone(data.correlation_id)
          /\ k \in DOMAIN queue
       THEN /\ removedBy' = NoteRemoval(queue, k, "listener")
            /\ queue' = Pop(queue, k)
            /\ fut' = SetResult(fut, queue[k])
       ELSE UNCHANGED <<queue, fut, removedBy>>
    /\ inbound' = Tail(inbound)
    /\ UNCHANGED <<cfg, http, ws, life, listener, task>>

\* _websocket_message_handler: the `async for` ends on a closed stream.
HandlerExit ==
    /\ listener
    /\ ws = "closed"
    /\ listener' = FALSE
    /\ inbound' = <<>>
    /\ UNCHANGED <<cfg, http, ws, life, queue, fut, task, removedBy>>

(* -------------------------- the unary channel -------------------------- *)

\* _send_via_http: the POST returned a response body.
HttpResponse(c) ==
    /\ task[c].pc = "http_req"
    /\ http = "open"
    /\ task' = [task EXCEPT ![c] = AttemptReturned(task[c])]
    /\ UNCHANGED <<cfg, http, ws, life, listener, queue, fut, inbound, removedBy>>

\* _send_via_http: the POST raised aiohttp.ClientError (a status error, a
\* broken connection, a session closed under the request):
\* `raise A2AClientError("HTTP request failed")`.
HttpError(c) ==
    /\ task[c].pc = "http_req"
    /\ task' = [task EXCEPT ![c] =
                    AttemptRaised(task[c], A2AClientError("None"), "http_error")]
    /\ UNCHANGED <<cfg, http, ws, life, listener, queue, fut, inbound, removedBy>>

(* ------------------------- building a message -------------------------- *)

\* Agent ids a caller can name, and the longest agent_ids list explored.
AgentIds == {"a1", "a2"}
AgentIdLists == UNION {[1..n -> AgentIds] : n \in 0..MaxAgentIds}

\* The AgentTarget variants; type is the default of each dataclass.
SingleTarget(agent_id) == [type |-> "single", agent_id |-> agent_id]
MultipleTargets(agent_ids) ==
    [type |-> "multiple", agent_ids |-> agent_ids, coordination_mode |-> "parallel"]
GroupTarget(role, max_agents) ==
    [type |-> "group", role |-> role, max_agents |-> max_agents,
     selection_strategy |-> "load-balanced"]
BroadcastTarget == [type |-> "broadcast", exclude_source |-> FALSE]

\* The CoordinationMode variants.
DirectCoordination == [mode |-> "direct", acknowledgment |-> TRUE]
BroadcastCoordination(aggregation) ==
    [mode |-> "broadcast", aggregation |-> aggregation, partial_success |-> FALSE]
ConsensusCoordination(minimum_participants) ==
    [mode |-> "consensus", consensus_type |-> "majority",
     minimum_participants |-> minimum_participants]
PipelineCoordination(stages) ==
    [mode |-> "pipeline", stages |-> stages, failure_strategy |-> "abort",
     state_passthrough |-> TRUE]

\* RetryPolicy(...), the dataclass.
RetryPolicy(max_retries, backoff_strategy, base_delay, max_delay, retryable_errors) ==
    [max_retries |-> max_retries, backoff_strategy |-> backoff_strategy,
     base_delay |-> base_delay, max_delay |-> max_delay,
     retryable_errors |-> retryable_errors]

\* A2AMessage(target=, tool_name=, coordination=): the three required
\* fields; every other field has the default None. A field given as None
\* is a missing one.
NewMessage(target, tool_name, coordination) ==
    [target |-> target, tool_name |-> tool_name, coordination |-> coordination,
     id |-> None, correlation_id |-> None, timestamp |-> None,
     retry_policy |-> None]

\* The structural rules of validate_message, by the text of the violation.
TargetRequired == "Message target is required"
ToolRequired == "Tool name is required"
CoordinationRequired == "Coordination mode is required"
AgentIdRequired == "Multiple target requires at least one agent ID"
RoleRequired == "Group target requires a role"
StageRequired == "Pipeline coordination requires at least one stage"

\* isinstance(message.target, T) and isinstance(message.coordination, T)
IsTarget(m, type) == ~IsNone(m.target) /\ Get(m.target).type = type
IsCoordination(m, mode) == ~IsNone(m.coordination) /\ Get(m.coordination).mode = mode

\* Mutant of ValidateMessage: the first violation found is returned alone.
ValidateMessageFailFast(m) ==
    IF IsNone(m.target) THEN <<TargetRequired>>
    ELSE IF IsNone(m.tool_name) THEN <<ToolRequired>>
    ELSE IF IsNone(m.coordination) THEN <<CoordinationRequired>>
    ELSE IF IsTarget(m, "multiple") /\ Len(Get(m.target).agent_ids) = 0
    THEN <<AgentIdRequired>>
    ELSE IF IsTarget(m, "group") /\ IsNone(Get(m.target).role)
    THEN <<RoleRequired>>
    ELSE IF IsCoordination(m, "pipeline") /\ Len(Get(m.coordination).stages) = 0
    THEN <<StageRequired>>
    ELSE <<>>

\* A2AUtils.validate_message: the list `errors`, appended to by six ifs in
\* this order.
ValidateMessage(m) ==
    (IF IsNone(m.target) THEN <<TargetRequired>> ELSE <<>>)
    \o (IF IsNone(m.tool_name) THEN <<ToolRequired>> ELSE <<>>)
    \o (IF IsNone(m.coordination) THEN <<CoordinationRequired>> ELSE <<>>)
    \o (IF IsTarget(m, "multiple") /\ Len(Get(m.target).agent_ids) = 0
        THEN <<AgentIdRequired>> ELSE <<>>)
    \o (IF IsTarget(m, "group") /\ IsNone(Get(m.target).role)
        THEN <<RoleRequired>> ELSE <<>>)
    \o (IF IsCoordination(m, "pipeline") /\ Len(Get(m.coordination).stages) = 0
        THEN <<StageRequired>> ELSE <<>>)

\* MCPToolName: the tools are opaque names to the client.
ToolName == "claude-flow.tool"

\* initialize_swarm: max_agents goes into the parameters, not the target.
InitializeSwarm(coordination_mode) ==
    NewMessage(Some(GroupTarget(Some("coordinator"), None)), Some(ToolName),
               Some(IF coordination_mode = "broadcast"
                    THEN BroadcastCoordination("all")
                    ELSE ConsensusCoordination(None)))

\* spawn_agent
SpawnAgent ==
    NewMessage(Some(GroupTarget(Some("spawner"), Some(1))), Some(ToolName),
               Some(ConsensusCoordination(Some(2))))

\* store_memory
StoreMemory(replication_factor) ==
    NewMessage(Some(GroupTarget(Some("memory-manager"), Some(replication_factor))),
               Some(ToolName), Some(ConsensusCoordination(None)))

\* retrieve_memory
RetrieveMemory(consistency) ==
    NewMessage(Some(GroupTarget(Some("memory-manager"),
                                Some(IF consistency = "strong" THEN 3 ELSE 1))),
               Some(ToolName),
               Some(IF consistency = "strong"
                    THEN ConsensusCoordination(None)
                    ELSE DirectCoordination))

\* initiate_consensus: participants is the list of the participants'
\* agent ids; minimum_participants = len(participants) // 2 + 1.
InitiateConsensus(participants) ==
    NewMessage(Some(MultipleTargets(participants)), Some(ToolName),
               Some(ConsensusCoordination(Some((Len(participants) \div 2) + 1))))

\* orchestrate_task: `if strategy == 'pipeline' and stages` builds the
\* pipeline; any other strategy, and a pipeline without stages, is a
\* broadcast with majority aggregation.
OrchestrateTask(strategy, max_agents, stages) ==
    NewMessage(Some(GroupTarget(Some("task-orchestrator"), Some(max_agents))),
               Some(ToolName),
               Some(IF strategy = "pipeline" /\ stages # <<>>
                    THEN PipelineCoordination(stages)
                    ELSE BroadcastCoordination("majority")))

\* The participants of train_neural_model: dicts with an agent id and a
\* role.
TrainingRoles == {"coordinator", "worker"}
ParticipantLists ==
    UNION {[1..n -> [agent_id : AgentIds, role : TrainingRoles]] : n \in 0..MaxAgentIds}

\* train_neural_model: next(...) over the coordinators raises when there
\* is none, before any message is built.
HasCoordinator(participants) ==
    \E i \in DOMAIN participants : participants[i].role = "coordinator"

\* train_neural_model: all participants are the target, and the pipeline
\* has the two stages 'initialization' and 'distributed-training'.
TrainNeuralModel(participants) ==
    NewMessage(Some(MultipleTargets([i \in DOMAIN participants |-> participants[i].agent_id])),
               Some(ToolName),
               Some([PipelineCoordination(<<"initialization", "distributed-training">>)
                        EXCEPT !.failure_strategy = "retry"]))

\* analyze_repository
AnalyzeRepository(max_analyzers) ==
    NewMessage(Some(GroupTarget(Some("analyst"), Some(max_analyzers))),
               Some(ToolName), Some(BroadcastCoordination("all")))

\* generate_performance_report
GeneratePerformanceReport ==
    NewMessage(Some(GroupTarget(Some("performance-monitor"), Some(1))),
               Some(ToolName), Some(DirectCoordination))

\* get_swarm_status
GetSwarmStatus ==
    NewMessage(Some(GroupTarget(Some("coordinator"), None)), Some(ToolName),
               Some(BroadcastCoordination("majority")))

\* list_agents
ListAgents ==
    NewMessage(Some(BroadcastTarget), Some(ToolName),
               Some(BroadcastCoordination("all")))

\* The messages the high-level helpers build, over their arguments.
HelperMessages ==
    {InitializeSwarm(mode) : mode \in {"broadcast", "consensus"}}
    \cup {SpawnAgent}
    \cup {OrchestrateTask(s, n, stages) :
            s \in {"adaptive", "pipeline"}, n \in 1..MaxCount,
            stages \in {<<>>, <<"stage">>}}
    \cup {StoreMemory(n) : n \in 1..MaxCount}
    \cup {RetrieveMemory(c) : c \in {"eventual", "strong", "causal"}}
    \cup {TrainNeuralModel(p) : p \in {l \in ParticipantLists : HasCoordinator(l)}}
    \cup {InitiateConsensus(p) : p \in AgentIdLists}
    \cup {AnalyzeRepository(n) : n \in 1..MaxCount}
    \cup {GeneratePerformanceReport, GetSwarmStatus, ListAgents}

\* The messages a caller builds directly: every combination of a target, a
\* tool name and a coordination mode, each possibly missing.
Targets ==
    {None}
    \cup {Some(SingleTarget(a)) : a \in AgentIds}
    \cup {Some(MultipleTargets(l)) : l \in AgentIdLists}
    \cup {Some(GroupTarget(r, n)) :
            r \in {None, Some("coordinator")},
            n \in {None} \cup {Some(k) : k \in 1..MaxCount}}
    \cup {Some(BroadcastTarget)}
Tools == {None, Some(ToolName)}
Coordinations ==
    {None, Some(DirectCoordination), Some(BroadcastCoordination("all"))}
    \cup {Some(ConsensusCoordination(n)) :
            n \in {None} \cup {Some(k) : k \in 1..MaxCount}}
    \cup {Some(PipelineCoordination(s)) : s \in {<<>>, <<"stage">>}}
DirectMessages ==
    {NewMessage(t, n, c) : t \in Targets, n \in Tools, c \in Coordinations}

(* --------------------- one call, from build to return ------------------ *)

\* _execute_with_retry: `policy = self.config.retry_policy`. The message
\* is not looked at.
Policy(m) ==
    RetryPolicy(cfg.max_retries, cfg.backoff_strategy, cfg.base_delay,
                cfg.max_delay, cfg.retryable_errors)

Min(a, b) == IF a < b THEN a ELSE b

\* Mutant of Delay: the strategies are swapped.
DelaySwapped(policy, attempt) ==
    IF policy.backoff_strategy = "exponential"
    THEN Min(policy.base_delay * (attempt + 1), policy.max_delay)
    ELSE Min(policy.base_delay * (2 ^ attempt), policy.max_delay)

\* Mutant of Delay: max_delay is not applied.
DelayUncapped(policy, attempt) ==
    IF policy.backoff_strategy = "exponential"
    THEN policy.base_delay * (2 ^ attempt)
    ELSE policy.base_delay * (attempt + 1)

\* Mutant of Delay: 'custom' is a strategy of its own, a fixed delay.
DelayCustomFixed(policy, attempt) ==
    CASE policy.backoff_strategy = "exponential" ->
            Min(policy.base_delay * (2 ^ attempt), policy.max_delay)
      [] policy.backoff_strategy = "custom" ->
            Min(policy.base_delay, policy.max_delay)
      [] OTHER ->
            Min(policy.base_delay * (attempt + 1), policy.max_delay)

\* _execute_with_retry, "Calculate delay": 'exponential' doubles, any other
\* strategy ('linear', 'custom') is linear; both are capped by max_delay.
Delay(policy, attempt) ==
    IF policy.backoff_strategy = "exponential"
    THEN Min(policy.base_delay * (2 ^ attempt), policy.max_delay)
    ELSE Min(policy.base_delay * (attempt + 1), policy.max_delay)

\* serialize_obj on an object: the attributes that are not None, by name.
\* `optional` names the attributes of r held as optional values.
SerializeObj(r, optional) ==
    [k \in {f \in DOMAIN r : f \notin optional \/ ~IsNone(r[f])} |->
        IF k \in optional THEN Get(r[k]) ELSE r[k]]

\* _serialize_message: serialize_obj recursively; a list is kept as it is,
\* element by element.
SerializeMessage(m) ==
    LET top == SerializeObj(m, DOMAIN m)
        nested(k) ==
            CASE k = "target" ->
                    SerializeObj(top[k], {"role", "max_agents"} \cap DOMAIN top[k])
              [] k = "coordination" ->
                    SerializeObj(top[k], {"minimum_participants"} \cap DOMAIN top[k])
              [] OTHER -> top[k]
    IN [k \in DOMAIN top |-> nested(k)]

\* Response payloads: the JSON object of a response, by the keys the
\* claims read. A key may be absent; 'error' may be an empty object, and
\* its code may be one of the retryable codes.
A2AError(code, text) == [code |-> code, message |-> text]
ErrorObjects ==
    {[code |-> None, message |-> None],
     [code |-> Some("E_REMOTE"), message |-> Some("failed")],
     [code |-> Some("NETWORK_TIMEOUT"), message |-> Some("timed out")]}
Payloads ==
    [success : {None, Some(TRUE), Some(FALSE)},
     error : {None} \cup {Some(e) : e \in ErrorObjects},
     result : {None, Some("value")}]

\* bool(d) of a JSON object: an empty object is falsy.
Truthy(obj) == \E k \in DOMAIN obj : ~IsNone(obj[k])

\* d.get(key, default)
GetOr(o, default) == IF IsNone(o) THEN default ELSE Get(o)

\* _deserialize_response, by the fields success, result and error.
DeserializeResponse(data) ==
    [success |-> GetOr(data.success, FALSE),
     result |-> data.result,
     error |-> IF ~IsNone(data.error) /\ Truthy(Get(data.error))
               THEN Some(A2AError(GetOr(Get(data.error).code, ""),
                                  GetOr(Get(data.error).message, "")))
               ELSE None]

\* The call before send_message: the loop has not started.
NewRetry ==
    [pc |-> "built", attempt |-> 0, slept |-> <<>>, sent |-> <<>>,
     error |-> None, response |-> None]

\* What one operation() can raise to the retry loop: _do_send_message
\* turns every Exception of a channel into an A2AClientError; a
\* cancellation of the calling task passes through it.
OperationErrors ==
    {A2AClientError("A2ATimeoutError"), A2AClientError("None"), CancelledError}

\* The caller checks the message with A2AUtils.validate_message; nothing in
\* the client calls it, and the list it returns binds nobody.
Validate ==
    /\ retry.pc = "built"
    /\ IsNone(errors)
    /\ errors' = Some(ValidateMessage(message))
    /\ UNCHANGED <<cfg, transport, message, retry>>

\* One operation(): _do_send_message serialises the message and puts it on
\* the channel, here the unary one of a connected client.
Dispatch(r, m) ==
    [r EXCEPT !.pc = "attempt", !.sent = Append(@, SerializeMessage(m))]

\* send_message: the id is generated if the message has none, the timestamp
\* is set, and _execute_with_retry makes the first attempt.
SendMessageCall ==
    /\ retry.pc = "built"
    /\ message' = [message EXCEPT
            !.id = IF IsNone(@) THEN Some(GenerateMessageId("c1")) ELSE @,
            !.timestamp = Some("now")]
    /\ retry' = Dispatch(retry, message')
    /\ UNCHANGED <<cfg, transport, errors>>

\* Mutant of OperationReturns: a failed response whose error code is
\* retryable is retried like a raised error.
OperationReturnsRetries(data) ==
    /\ retry.pc = "attempt"
    /\ LET response == DeserializeResponse(data)
           retried == /\ ~response.success
                      /\ ~IsNone(response.error)
                      /\ Get(response.error).code \in Policy(message).retryable_errors
                      /\ retry.attempt < Policy(message).max_retries
       IN retry' =
            IF retried
            THEN [retry EXCEPT !.pc = "sleep",
                               !.slept = Append(@, Delay(Policy(message), retry.attempt))]
            ELSE [retry EXCEPT !.pc = "returned", !.response = Some(response)]
    /\ UNCHANGED <<cfg, transport, message, errors>>

\* The attempt returned a payload; _deserialize_response builds the
\* A2AResponse that send_message returns.
OperationReturns(data) ==
    /\ retry.pc = "attempt"
    /\ retry' = [retry EXCEPT !.pc = "returned",
                              !.response = Some(DeserializeResponse(data))]
    /\ UNCHANGED <<cfg, transport, message, errors>>

\* The attempt raised e: `raise error` when e is no Exception, is not
\* retryable or the attempts are used up; else the delay is slept.
OperationRaises(e) ==
    /\ retry.pc = "attempt"
    /\ retry' =
        IF ~IsException(e) \/ RaisesNow(e, retry.attempt)
        THEN [retry EXCEPT !.pc = "raised", !.error = Some(e)]
        ELSE [retry EXCEPT !.pc = "sleep", !.error = Some(e),
                           !.slept = Append(@, Delay(Policy(message), retry.attempt))]
    /\ UNCHANGED <<cfg, transport, message, errors>>

\* asyncio.sleep(delay) is over: the next turn of the for loop.
SleepOver ==
    /\ retry.pc = "sleep"
    /\ retry' = Dispatch([retry EXCEPT !.attempt = @ + 1], message)
    /\ UNCHANGED <<cfg, transport, message, errors>>

\* A2AClientConfig with the defaults of RetryPolicy.
DefaultConfig ==
    [websocket_enabled |-> FALSE, timeout |-> DefaultTimeout,
     max_retries |-> DefaultMaxRetries, backoff_strategy |-> "exponential",
     base_delay |-> DefaultBaseDelay, max_delay |-> DefaultMaxDelay,
     retryable_errors |-> DefaultRetryable]

\* The configurations explored for the retry loop.
Configs ==
    [websocket_enabled : {FALSE}, timeout : {DefaultTimeout},
     max_retries : {0, MaxRetries, DefaultMaxRetries},
     backoff_strategy : {"linear", "exponential", "custom"},
     base_delay : {DefaultBaseDelay, MaxBaseDelay},
     max_delay : {LowMaxDelay, DefaultMaxDelay},
     retryable_errors : {DefaultRetryable, {"A2A_CLIENT_ERROR"}}]

\* A retry policy a message carries of its own: no retry at all.
MessagePolicy == RetryPolicy(0, "linear", DefaultBaseDelay, DefaultMaxDelay, {})

\* A valid message with and without an id, a correlation id and a retry
\* policy of its own.
PlainMessages ==
    {[NewMessage(Some(SingleTarget("a1")), Some(ToolName), Some(DirectCoordination))
        EXCEPT !.id = i, !.correlation_id = k, !.retry_policy = p] :
        i \in {None} \cup {Some(u) : u \in UserIds},
        k \in {None, Some(<<"usr", "corr">>)},
        p \in {None, Some(MessagePolicy)}}

\* A connected client without a stream and one message built by a caller:
\* any message under the default configuration, or a plain message under
\* any configuration.
InitOneCall ==
    /\ http = "open"
    /\ ws = "none"
    /\ life = "connected"
    /\ listener = FALSE
    /\ queue = EmptyQueue
    /\ fut = [h \in Handles |-> "none"]
    /\ inbound = <<>>
    /\ task = [c \in Callers |-> IdleTask]
    /\ removedBy = [h \in Handles |-> <<>>]
    /\ \/ cfg = DefaultConfig /\ message \in DirectMessages \cup HelperMessages
       \/ cfg \in Configs /\ message \in PlainMessages
    /\ errors = None
    /\ retry = NewRetry
    /\ engine = [pc |-> "idle"]

NextOneCall ==
    \/ Validate /\ UNCHANGED engine
    \/ SendMessageCall /\ UNCHANGED engine
    \/ \E data \in Payloads : OperationReturns(data) /\ UNCHANGED engine
    \/ \E e \in OperationErrors : OperationRaises(e) /\ UNCHANGED engine
    \/ SleepOver /\ UNCHANGED engine

SpecOneCall == InitOneCall /\ [][NextOneCall]_vars

\* One call in which the caller does call send_message, every attempt
\* ends (it returns or raises) and every asyncio.sleep returns.
FairOneCall ==
    /\ SpecOneCall
    /\ WF_vars(SendMessageCall /\ UNCHANGED engine)
    /\ WF_vars(/\ \/ \E data \in Payloads : OperationReturns(data)
                  \/ \E e \in OperationErrors : OperationRaises(e)
               /\ UNCHANGED engine)
    /\ WF_vars(SleepOver /\ UNCHANGED engine)

(* --------------------------- specification ----------------------------- *)

\* The transport is explored with the message-level state left alone.
Next ==
    \/ Connect /\ UNCHANGED <<single, engine>>
    \/ SetupWebsocketOk /\ UNCHANGED <<single, engine>>
    \/ SetupWebsocketFail /\ UNCHANGED <<single, engine>>
    \/ DisconnectHttp /\ UNCHANGED <<single, engine>>
    \/ DisconnectWs /\ UNCHANGED <<single, engine>>
    \/ DisconnectCancel /\ UNCHANGED <<single, engine>>
    \/ \E c \in Callers : \E m \in Messages : SendMessage(c, m) /\ UNCHANGED <<single, engine>>
    \/ \E c \in Callers : RetryAttempt(c) /\ UNCHANGED <<single, engine>>
    \/ \E c \in Callers : WebsocketSendOk(c) /\ UNCHANGED <<single, engine>>
    \/ \E c \in Callers : WebsocketSendFail(c) /\ UNCHANGED <<single, engine>>
    \/ \E c \in Callers : WaitForDeadline(c) /\ UNCHANGED <<single, engine>>
    \/ \E c \in Callers : WaitForReturn(c) /\ UNCHANGED <<single, engine>>
    \/ \E f \in Frames : ServerSend(f) /\ UNCHANGED <<single, engine>>
    \/ RemoteClose /\ UNCHANGED <<single, engine>>
    \/ HandleFrame /\ UNCHANGED <<single, engine>>
    \/ HandlerExit /\ UNCHANGED <<single, engine>>
    \/ \E c \in Callers : HttpResponse(c) /\ UNCHANGED <<single, engine>>
    \/ \E c \in Callers : HttpError(c) /\ UNCHANGED <<single, engine>>

Spec == Init /\ [][Next]_vars

\* The event loop runs every task that can run and every timer fires: a
\* call suspended at an await (a send, a wait_for, a request, a backoff
\* sleep) goes on when what it awaits is over.
TaskStep(c) ==
    /\ \/ RetryAttempt(c)
       \/ WebsocketSendOk(c)
       \/ WebsocketSendFail(c)
       \/ WaitForDeadline(c)
       \/ WaitForReturn(c)
       \/ HttpResponse(c)
       \/ HttpError(c)
    /\ UNCHANGED <<single, engine>>

FairSpec == Spec /\ \A c \in Callers : WF_vars(TaskStep(c))

(* -------------------- the transport and its environment ---------------- *)

\* Frames that must complete nothing whatever the table holds: text that
\* is not JSON (json.loads raises JSONDecodeError), JSON that is not an
\* object (data.get raises AttributeError), a response without a
\* correlation_id, a response to an id that was never sent, and a frame of
\* another type that carries the id of a message that was sent.
UnmatchedFrames ==
    {[type |-> "not-json", correlation_id |-> None],
     [type |-> "not-object", correlation_id |-> None],
     [type |-> "response", correlation_id |-> None],
     Response(<<"usr", "unknown">>)}
        \cup {[type |-> "event", correlation_id |-> Some(task[c].id)] :
                 c \in {d \in Callers : task[d].frames > 0}}

\* The task that awaits send_message is cancelled (Task.cancel()) while it
\* is suspended on the stream, in websocket.send or in wait_for:
\* CancelledError is raised at the await. It is
\* no Exception, so it passes `except asyncio.TimeoutError` and `except
\* Exception` of _send_via_websocket, both of which hold the pop, and
\* every handler above them. A pending future the task waits for is
\* cancelled with it.
CancelTask(c) ==
    /\ task[c].pc \in {"ws_send", "waiting"}
    /\ task[c].pc = "waiting" => fut[Handle(c)] = "pending"
    /\ fut' = Collect(IF task[c].pc = "waiting"
                      THEN [fut EXCEPT ![Handle(c)] = "cancelled"]
                      ELSE fut,
                      queue, c)
    /\ task' = [task EXCEPT ![c] =
                    AttemptRaised(task[c], CancelledError, "task_cancelled")]
    /\ UNCHANGED <<cfg, http, ws, life, listener, queue, inbound, removedBy>>

\* The transport with a server that also sends frames matching nothing and
\* callers whose tasks can be cancelled.
NextEnv ==
    \/ Next
    \/ \E f \in UnmatchedFrames : ServerSend(f) /\ UNCHANGED <<single, engine>>
    \/ \E c \in Callers : CancelTask(c) /\ UNCHANGED <<single, engine>>

SpecEnv == Init /\ [][NextEnv]_vars

(* ------------------ target resolution and coordination ----------------- *)

\* The resolver and the coordination engine are the part of the system the
\* client talks to: the client declares the targets and coordination modes
\* and hands the message over (_do_send_message). They are modelled here
\* from their specification (sections 4.2 and 4.3).

\* The agents known to the registry: identity, role, capability set,
\* status and current load.
AgentDirectory ==
    {[id |-> "a1", role |-> "coder", capabilities |-> {"python"},
      status |-> "active", load |-> 2],
     [id |-> "a2", role |-> "coder", capabilities |-> {"python", "rust"},
      status |-> "idle", load |-> 1],
     [id |-> "a3", role |-> "coder", capabilities |-> {},
      status |-> "active", load |-> 1],
     [id |-> "a4", role |-> "tester", capabilities |-> {"python"},
      status |-> "busy", load |-> 0]}

\* A directory snapshot: what the registry knows at one resolution call.
Snapshots == SUBSET AgentDirectory

\* A Group target with the filter the resolver applies to it.
GroupQuery(role, capabilities, status, max_agents, selection_strategy) ==
    [type |-> "group", role |-> role, capabilities |-> capabilities,
     status |-> status, max_agents |-> max_agents,
     selection_strategy |-> selection_strategy]

\* Mutant of Qualifies: the status of the agent is not looked at.
QualifiesAnyStatus(a, target) ==
    /\ a.role = target.role
    /\ IsNone(target.capabilities) \/ Get(target.capabilities) \subseteq a.capabilities

\* Group: the role, the capability subset if given, the status if given.
Qualifies(a, target) ==
    /\ a.role = target.role
    /\ IsNone(target.capabilities) \/ Get(target.capabilities) \subseteq a.capabilities
    /\ IsNone(target.status) \/ Get(target.status) = a.status

\* Every order of the agents of S.
Orderings(S) ==
    {o \in [1..Cardinality(S) -> S] : \A i, j \in DOMAIN o : i # j => o[i] # o[j]}

\* capability-matched: how many of the wanted capabilities the agent has.
Overlap(a, target) ==
    IF IsNone(target.capabilities) THEN 0
    ELSE Cardinality(Get(target.capabilities) \cap a.capabilities)

\* The orders selection_strategy allows: any for a random sample,
\* ascending load for load-balanced, descending capability overlap for
\* capability-matched.
Ranked(S, target) ==
    {o \in Orderings(S) :
        \A i, j \in DOMAIN o : i < j =>
            CASE target.selection_strategy = "load-balanced" ->
                    o[i].load <= o[j].load
              [] target.selection_strategy = "capability-matched" ->
                    Overlap(o[i], target) >= Overlap(o[j], target)
              [] OTHER -> TRUE}

\* Mutant of Take: max_agents is ignored.
TakeAll(list, max_agents) == list

\* The first max_agents of the list, all of it when max_agents is absent.
Take(list, max_agents) ==
    IF IsNone(max_agents) THEN list
    ELSE SubSeq(list, 1, Min(Len(list), Get(max_agents)))

\* Mutant of Deduplicated: duplicates are kept.
KeepsDuplicates(list) == list

\* A list with its duplicates removed, first-seen order kept.
RECURSIVE Deduplicated(_)
Deduplicated(list) ==
    IF list = <<>> THEN <<>>
    ELSE LET front == Deduplicated(SubSeq(list, 1, Len(list) - 1))
             last == list[Len(list)]
         IN IF \E i \in DOMAIN front : front[i] = last
            THEN front
            ELSE Append(front, last)

\* What resolution ends with: the resolved identifiers in order, or the
\* error it fails with.
Resolved(ids) == [ok |-> TRUE, ids |-> ids, error |-> "none"]
ResolutionFails(error) == [ok |-> FALSE, ids |-> <<>>, error |-> error]

\* The results the resolver can return for a target and a snapshot.
Resolve(target, snapshot) ==
    CASE target.type = "single" ->
            IF \E a \in snapshot : a.id = target.agent_id
            THEN {Resolved(<<target.agent_id>>)}
            ELSE {ResolutionFails("TargetNotFound")}
      [] target.type = "multiple" ->
            IF target.agent_ids = <<>>
            THEN {ResolutionFails("ValidationError")}
            ELSE {Resolved(Deduplicated(target.agent_ids))}
      [] target.type = "group" ->
            LET filtered == {a \in snapshot : Qualifies(a, target)} IN
            IF filtered = {}
            THEN {ResolutionFails("NoAgentsMatched")}
            ELSE {Resolved(Take([i \in DOMAIN o |-> o[i].id], target.max_agents)) :
                    o \in Ranked(filtered, target)}


\* One send as the engine sees it: the message's target and coordination
\* mode, the directory snapshot of this resolution call, and nothing
\* resolved, dispatched or answered yet.
NewSend(target, coordination, snapshot) ==
    [pc |-> "new", target |-> target, coordination |-> coordination,
     snapshot |-> snapshot, resolved |-> <<>>, dispatched |-> <<>>,
     responses |-> <<>>, stage |-> 1, tries |-> 0, outputs |-> <<>>,
     log |-> <<>>, outcome |-> None]

\* What the engine returns: overall success, the agents that succeeded,
\* the recorded failures, the error it fails with.
Outcome(success, successes, failures, error) ==
    [success |-> success, successes |-> successes, failures |-> failures,
     error |-> error]

\* The agents of the responses with the given success flag, in arrival
\* order.
AgentsWith(responses, success) ==
    LET picked == SelectSeq(responses, LAMBDA r : r.success = success)
    IN [i \in DOMAIN picked |-> picked[i].agent]

\* The engine resolves the target against the snapshot; a resolution
\* failure ends the send.
EngineResolves ==
    /\ engine.pc = "new"
    /\ \E r \in Resolve(engine.target, engine.snapshot) :
          engine' =
            IF r.ok
            THEN [engine EXCEPT !.pc = "resolved", !.resolved = r.ids]
            ELSE [engine EXCEPT !.pc = "done",
                     !.outcome = Some(Outcome(FALSE, <<>>, <<>>, r.error))]
    /\ UNCHANGED <<cfg, transport, single>>

\* Dispatch. Broadcast: the message goes to every resolved agent.
\* Consensus: resolved-count >= minimum_participants is validated first
\* (else InsufficientParticipants), then the message goes to all resolved
\* agents. Pipeline: the first stage is next.
EngineDispatches ==
    /\ engine.pc = "resolved"
    /\ engine' =
        CASE engine.coordination.mode = "pipeline" ->
                [engine EXCEPT !.pc = "stage"]
          [] /\ engine.coordination.mode = "consensus"
             /\ ~IsNone(engine.coordination.minimum_participants)
             /\ Len(engine.resolved) < Get(engine.coordination.minimum_participants) ->
                [engine EXCEPT !.pc = "done",
                    !.outcome = Some(Outcome(FALSE, <<>>, <<>>,
                                             "InsufficientParticipants"))]
          [] OTHER ->
                [engine EXCEPT !.pc = "collecting",
                               !.dispatched = engine.resolved]
    /\ UNCHANGED <<cfg, transport, single>>

\* Mutant of Quorum: half of the resolved agents are enough.
QuorumHalf(coordination, n) ==
    IF IsNone(coordination.minimum_participants)
    THEN n \div 2
    ELSE Get(coordination.minimum_participants)

\* Consensus majority: successes >= minimum_participants, or more than
\* half of the resolved count if it is unset.
Quorum(coordination, n) ==
    IF IsNone(coordination.minimum_participants)
    THEN n \div 2 + 1
    ELSE Get(coordination.minimum_participants)

\* Mutant of Aggregate: Broadcast `all` fails on any failure, whatever
\* partial_success says.
AggregateStrict(coordination, dispatched, responses) ==
    LET ok == AgentsWith(responses, TRUE)
        failed == AgentsWith(responses, FALSE)
    IN
    CASE coordination.mode = "broadcast" ->
            IF Len(responses) < Len(dispatched) THEN None
            ELSE IF failed # <<>>
            THEN Some(Outcome(FALSE, ok, failed, "BroadcastFailed"))
            ELSE Some(Outcome(TRUE, ok, failed, "none"))
      [] OTHER ->
            IF Len(ok) >= Quorum(coordination, Len(dispatched))
            THEN Some(Outcome(TRUE, ok, failed, "none"))
            ELSE None

\* The outcome the responses received so far decide, None while the
\* engine has to go on waiting. Broadcast `all` waits for every response
\* and fails if any is an unrecoverable error unless partial_success, when
\* it returns the successes and the list of failures. Consensus majority
\* succeeds once the successes reach the quorum.
Aggregate(coordination, dispatched, responses) ==
    LET ok == AgentsWith(responses, TRUE)
        failed == AgentsWith(responses, FALSE)
    IN
    CASE coordination.mode = "broadcast" ->
            IF Len(responses) < Len(dispatched) THEN None
            ELSE IF failed # <<>> /\ ~coordination.partial_success
            THEN Some(Outcome(FALSE, ok, failed, "BroadcastFailed"))
            ELSE Some(Outcome(TRUE, ok, failed, "none"))
      [] OTHER ->
            IF Len(ok) >= Quorum(coordination, Len(dispatched))
            THEN Some(Outcome(TRUE, ok, failed, "none"))
            ELSE None

\* An agent the message was dispatched to responds, with a success or an
\* unrecoverable error.
AgentResponds(i, success) ==
    /\ engine.pc = "collecting"
    /\ i \in DOMAIN engine.dispatched
    /\ \A j \in DOMAIN engine.responses :
          engine.responses[j].agent # engine.dispatched[i]
    /\ LET responses == Append(engine.responses,
                               [agent |-> engine.dispatched[i], success |-> success])
           decided == Aggregate(engine.coordination, engine.dispatched, responses)
       IN engine' = [engine EXCEPT !.responses = responses,
                                   !.outcome = decided,
                                   !.pc = IF IsNone(decided) THEN "collecting"
                                          ELSE "done"]
    /\ UNCHANGED <<cfg, transport, single>>

\* voting_timeout passes before the quorum is reached.
VotingTimeout ==
    /\ engine.pc = "collecting"
    /\ engine.coordination.mode = "consensus"
    /\ engine' = [engine EXCEPT !.pc = "done",
                     !.outcome = Some(Outcome(FALSE,
                                              AgentsWith(engine.responses, TRUE),
                                              AgentsWith(engine.responses, FALSE),
                                              "ConsensusTimeout"))]
    /\ UNCHANGED <<cfg, transport, single>>

\* Mutant of AfterStage: skip stops the pipeline like abort.
AfterStageSkipAborts(e, success) ==
    LET last == e.stage = Len(e.coordination.stages)
        logged == [e EXCEPT !.log = Append(@, [stage |-> e.stage,
                                                    success |-> success])]
        next == [logged EXCEPT !.stage = @ + 1, !.tries = 0,
                    !.pc = IF last THEN "done" ELSE "stage",
                    !.outcome = IF last THEN Some(Outcome(TRUE, <<>>, <<>>, "none"))
                                ELSE None]
        abort == [logged EXCEPT !.pc = "done",
                    !.outcome = Some(Outcome(FALSE, <<>>, <<e.stage>>,
                                             "PipelineStageError"))]
    IN
    IF success THEN [next EXCEPT !.outputs = Append(@, Some("output"))]
    ELSE CASE e.coordination.failure_strategy = "retry" /\ e.tries < cfg.max_retries ->
                 [logged EXCEPT !.tries = @ + 1]
           [] OTHER -> abort

\* The pipeline after its current stage ran. A success records the output
\* and moves to the next stage. A failure: abort stops the pipeline with a
\* failure anchored to the stage; skip records a null output and
\* continues; retry runs the stage again under the retry policy and then
\* aborts.
AfterStage(e, success) ==
    LET last == e.stage = Len(e.coordination.stages)
        logged == [e EXCEPT !.log = Append(@, [stage |-> e.stage,
                                                    success |-> success])]
        next == [logged EXCEPT !.stage = @ + 1, !.tries = 0,
                    !.pc = IF last THEN "done" ELSE "stage",
                    !.outcome = IF last THEN Some(Outcome(TRUE, <<>>, <<>>, "none"))
                                ELSE None]
        abort == [logged EXCEPT !.pc = "done",
                    !.outcome = Some(Outcome(FALSE, <<>>, <<e.stage>>,
                                             "PipelineStageError"))]
    IN
    IF success THEN [next EXCEPT !.outputs = Append(@, Some("output"))]
    ELSE CASE e.coordination.failure_strategy = "skip" ->
                 [next EXCEPT !.outputs = Append(@, None)]
           [] e.coordination.failure_strategy = "retry" /\ e.tries < cfg.max_retries ->
                 [logged EXCEPT !.tries = @ + 1]
           [] OTHER -> abort

\* The current stage of the pipeline is executed and succeeds or fails.
StageRuns(success) ==
    /\ engine.pc = "stage"
    /\ engine' = AfterStage(engine, success)
    /\ UNCHANGED <<cfg, transport, single>>


\* The identifiers a message can be dispatched to, in a fixed order.
VoterIds ==
    SubSeq(<<"a1", "a2", "a3", "a4", "a5", "a6", "a7", "a8">>, 1, MaxVoters)

\* The id lists given to the resolver: every list over the known ids up to
\* MaxListLen, the empty one and those with repeated ids included.
QueriedIds == {a.id : a \in AgentDirectory}
IdLists == UNION {[1..n -> {"a1", "a2"}] : n \in 0..MaxListLen}

\* The Group targets given to the resolver.
GroupQueries ==
    {GroupQuery(role, capabilities, status, max_agents, selection_strategy) :
        role \in {"coder", "tester"},
        capabilities \in {None, Some({"python"})},
        status \in {None, Some("active")},
        max_agents \in {None, Some(1), Some(2)},
        selection_strategy \in {"random", "load-balanced", "capability-matched"}}

\* The sends explored: every Single, Multiple and Group target against
\* every snapshot under Broadcast `all`; and over 1 to MaxVoters resolved
\* agents, Broadcast `all` with and without partial_success, Consensus
\* majority with minimum_participants unset and set, and pipelines of 1 to
\* MaxStages stages under each failure strategy.
Sends ==
    {NewSend(target, BroadcastCoordination("all"), snapshot) :
        target \in {SingleTarget(id) : id \in QueriedIds}
                      \cup {MultipleTargets(ids) : ids \in IdLists}
                      \cup GroupQueries,
        snapshot \in Snapshots}
    \cup
    {NewSend(MultipleTargets(SubSeq(VoterIds, 1, n)), coordination, AgentDirectory) :
        n \in 1..MaxVoters,
        coordination \in
            {[BroadcastCoordination("all") EXCEPT !.partial_success = p] :
                p \in BOOLEAN}
            \cup {ConsensusCoordination(minimum) :
                    minimum \in {None, Some(2), Some(MaxVoters)}}}
    \cup
    {NewSend(SingleTarget("a1"),
             [PipelineCoordination([i \in 1..n |-> [name |-> <<"stage", i>>]])
                EXCEPT !.failure_strategy = strategy],
             AgentDirectory) :
        n \in 1..MaxStages, strategy \in {"abort", "skip", "retry"}}

\* A connected client and one send handed to the engine.
InitEngine ==
    /\ cfg = DefaultConfig
    /\ http = "open"
    /\ ws = "none"
    /\ life = "connected"
    /\ listener = FALSE
    /\ queue = EmptyQueue
    /\ fut = [h \in Handles |-> "none"]
    /\ inbound = <<>>
    /\ task = [c \in Callers |-> IdleTask]
    /\ removedBy = [h \in Handles |-> <<>>]
    /\ message = NewMessage(None, None, None)
    /\ errors = None
    /\ retry = NewRetry
    /\ engine \in Sends

NextEngine ==
    \/ EngineResolves
    \/ EngineDispatches
    \/ \E i \in 1..MaxVoters : \E success \in BOOLEAN : AgentResponds(i, success)
    \/ VotingTimeout
    \/ \E success \in BOOLEAN : StageRuns(success)

SpecEngine == InitEngine /\ [][NextEngine]_vars

(* ------------------- a message with a correlation id ------------------- *)

\* The messages of the caller, with and without an id and a correlation_id
\* of their own (the two then differ).
CorrelatedMessages == PlainMessages

\* The response a server sends to the message of call c: it carries the
\* correlation_id the message went out with, and the id of the message
\* when the message has none (_serialize_message leaves a None
\* correlation_id out of the frame).
CorrelatedResponse(c) ==
    Response(IF IsNone(message.correlation_id)
             THEN task[c].id
             ELSE Get(message.correlation_id))

\* The caller c1 calls send_message with the message: the id is generated
\* if the message has none, the timestamp is set, and the first attempt
\* serialises the message for the channel.
SendCorrelated ==
    /\ retry.pc = "built"
    /\ message' = [message EXCEPT
            !.id = IF IsNone(@) THEN Some(GenerateMessageId("c1")) ELSE @,
            !.timestamp = Some("now")]
    /\ \E execution \in Executions :
          SendMessage("c1", [id |-> message.id, execution |-> execution])
    /\ retry' = Dispatch(retry, message')
    /\ UNCHANGED <<errors, engine>>

\* The backoff sleep of the call is over: the next attempt serialises the
\* message again.
RetryCorrelated ==
    /\ RetryAttempt("c1")
    /\ retry' = Dispatch([retry EXCEPT !.attempt = @ + 1], message)
    /\ UNCHANGED <<message, errors, engine>>

\* The server answers a frame of the call.
ServerResponds ==
    /\ task["c1"].frames > 0
    /\ ServerSend(CorrelatedResponse("c1"))
    /\ UNCHANGED <<single, engine>>

\* A connecting client and one message of a caller.
InitCorrelated ==
    /\ cfg \in [websocket_enabled : {TRUE},
                retryable_errors : {DefaultRetryable, {"A2A_CLIENT_ERROR"}},
                max_retries : {MaxRetries},
                timeout : {DefaultTimeout}]
    /\ http = "none"
    /\ ws = "none"
    /\ life = "new"
    /\ listener = FALSE
    /\ queue = EmptyQueue
    /\ fut = [h \in Handles |-> "none"]
    /\ inbound = <<>>
    /\ task = [c \in Callers |-> IdleTask]
    /\ removedBy = [h \in Handles |-> <<>>]
    /\ message \in CorrelatedMessages
    /\ errors = None
    /\ retry = NewRetry
    /\ engine = [pc |-> "idle"]

NextCorrelated ==
    \/ Connect /\ UNCHANGED <<single, engine>>
    \/ SetupWebsocketOk /\ UNCHANGED <<single, engine>>
    \/ SendCorrelated
    \/ RetryCorrelated
    \/ WebsocketSendOk("c1") /\ UNCHANGED <<single, engine>>
    \/ WaitForDeadline("c1") /\ UNCHANGED <<single, engine>>
    \/ WaitForReturn("c1") /\ UNCHANGED <<single, engine>>
    \/ ServerResponds
    \/ HandleFrame /\ UNCHANGED <<single, engine>>

SpecCorrelated == InitCorrelated /\ [][NextCorrelated]_vars

(* ----------------------------- vocabulary ------------------------------ *)

\* The call has an attempt outstanding on the stream.
Outstanding(c) == task[c].pc \in {"ws_send", "waiting"}

\* The last attempt of the call is over (the call returned, raised, or
\* sleeps before its next attempt).
AttemptOver(c) == task[c].pc \in {"done", "sleep"}

\* The table holds the entry that the current attempt of c registered.
HasEntry(c) == Lookup(queue, task[c].id) = c

\* The current attempt of c begins in this step.
Dispatches(c) == task[c].pc \in {"idle", "sleep"} /\ task'[c] # task[c]

TypeOK ==
    /\ http \in {"none", "open", "closed"}
    /\ ws \in {"none", "open", "closing", "closed"}
    /\ life \in {"new", "connecting", "connected", "disc_http", "disc_ws",
                  "disconnected"}
    /\ listener \in BOOLEAN
    /\ DOMAIN queue \subseteq AllIds
    /\ \A k \in DOMAIN queue : queue[k] \in Handles
    /\ fut \in [Handles -> {"none", "pending", "result", "cancelled"}]
    /\ Len(inbound) <= MaxInbound
    /\ \A c \in Callers :
          /\ task[c].pc \in {"idle", "ws_send", "waiting", "http_req", "sleep", "done"}
          /\ task[c].attempt \in 0..cfg.max_retries
          /\ task[c].chan \in {"none", "ws", "http"}

\* A future is named by its call: when an attempt of c is over or runs on
\* the unary channel, no entry of the table holds a future of c.
NoStaleEntry ==
    \A c \in Callers :
        ~Outstanding(c) => \A k \in DOMAIN queue : queue[k] # c

(* ------------------------------- claims -------------------------------- *)

\* C1: for every message dispatched on the stream, the entry registered
\* for it is removed from the pending table exactly once, by the listener
\* on a matching response frame or by the timeout path (or by disconnect),
\* never by two of them. Stated for the attempts that ended with a
\* response or a timeout. Violated: a second send with the same id
\* replaces the entry, which is then never removed by its own paths, and
\* the timeout of the first send removes the entry of the second (C5).
C1_RemovedExactlyOnce ==
    \A c \in Callers :
        (AttemptOver(c) /\ task[c].chan = "ws"
            /\ task[c].cause \in {"response", "timeout"})
        => removedBy[c] \in {<<"listener">>, <<"timeout">>, <<"disconnect">>}

\* C5: no two outstanding stream sends share a pending-table key, and no
\* send replaces the entry of a send that is still pending. Violated: two
\* calls given the same id are outstanding together and the second
\* registration overwrites the first.
C5_UniquePendingIds ==
    \A c, d \in Callers :
        (c # d /\ Outstanding(c) /\ Outstanding(d))
        => (task[c].id # task[d].id /\ "replaced" \notin
                {removedBy[c][i] : i \in 1..Len(removedBy[c])})

\* The deadline C6 states: the message's own timeout when it is set, the
\* client default otherwise.
ClaimedDeadline(execution) ==
    IF ~IsNone(execution) /\ ~IsNone(Get(execution).timeout)
    THEN Get(execution).timeout
    ELSE Some(cfg.timeout)

\* C6: every stream-dispatched message has a finite deadline: its own
\* execution timeout when set, the client default otherwise, also when
\* its execution context leaves the timeout unset. Violated: with an
\* execution context whose timeout is None the deadline is None and
\* wait_for never expires.
C6_FiniteDeadline ==
    \A c \in Callers :
        Outstanding(c) =>
            /\ SendTimeout(task[c].execution) = ClaimedDeadline(task[c].execution)
            /\ ~IsNone(SendTimeout(task[c].execution))

\* C7: when a stream-dispatched message gets no response within its
\* deadline, the error send_message raises is A2ATimeoutError with code
\* A2A_TIMEOUT_ERROR. Violated: _do_send_message wraps it into
\* A2AClientError with code A2A_CLIENT_ERROR.
C7_TimeoutErrorSurfaces ==
    \A c \in Callers :
        (AttemptOver(c) /\ task[c].cause = "timeout")
        => /\ Get(task[c].error).type = "A2ATimeoutError"
           /\ Get(task[c].error).code = "A2A_TIMEOUT_ERROR"

\* The future of caller c has been completed, one way or the other.
C2_Completed(c) == fut[c] \in {"result", "cancelled"}

\* C2: when a matching response frame and the deadline race for one
\* pending entry, the future is completed at most once (a result is never
\* replaced by a cancellation nor a cancellation by a result), the first
\* of the two to reach the future decides, and the caller leaves wait_for
\* with exactly the outcome its future holds: the response, or the timeout
\* error.
C2_OneOutcome ==
    /\ [](\A c \in Callers :
            /\ (task[c].pc = "waiting" /\ task[c].timer) => fut[c] = "cancelled"
            /\ (Outstanding(c) /\ fut[c] = "result") => ~task[c].timer)
    /\ [][\A c \in Callers :
            /\ (C2_Completed(c) /\ C2_Completed(c)') => fut'[c] = fut[c]
            /\ (task[c].pc = "waiting" /\ task'[c].pc # "waiting") =>
                  \/ /\ fut[c] = "result"
                     /\ task'[c].cause = "response"
                     /\ IsNone(task'[c].error)
                     /\ queue' = queue
                  \/ /\ fut[c] = "cancelled" /\ task[c].timer
                     /\ task'[c].cause = "timeout"
                     /\ ~IsNone(task'[c].error)
                  \/ /\ fut[c] = "cancelled" /\ ~task[c].timer
                     /\ task'[c].cause = "cancelled"
                     /\ ~IsNone(task'[c].error)]_vars

\* C2 witness: the deadline passed first and cancelled the future; the
\* matching response frame was then handled by the listener, which removed
\* the entry and left the cancelled future as it was.
C2_Witness ==
    \E c \in Callers :
        /\ task[c].pc = "waiting"
        /\ task[c].timer
        /\ fut[c] = "cancelled"
        /\ removedBy[c] = <<"listener">>

\* The futures that the table holds.
Held(q) == {q[k] : k \in DOMAIN q}

C4_TimeoutIsLocal ==
    [][\A c, d \in Callers :
          (/\ c # d
           /\ Outstanding(d)
           /\ task[d].id # task[c].id
           /\ task[c].pc = "waiting"
           /\ \/ ~task[c].timer /\ task'[c].timer
              \/ task[c].timer /\ task'[c].pc # "waiting")
          => /\ Lookup(queue', task[d].id) = Lookup(queue, task[d].id)
             /\ fut'[d] = fut[d]
             /\ task'[d] = task[d]]_vars

\* C4 witness: one call has timed out and popped its entry while another
\* call with a different id is still waiting, its entry in the table and
\* its future pending.
C4_Witness ==
    \E c, d \in Callers :
        /\ c # d
        /\ AttemptOver(c) /\ task[c].cause = "timeout"
        /\ removedBy[c] = <<"timeout">>
        /\ task[d].pc = "waiting"
        /\ task[d].id # task[c].id
        /\ HasEntry(d)
        /\ fut[d] = "pending"

\* C8: an attempt is dispatched on the stream exactly when the stream
\* exists and is not closed at that moment, and on the unary channel
\* otherwise; no attempt uses both channels; a frame is sent only on an
\* open stream. (A stream in its closing handshake reports closed = False:
\* the attempt takes the stream and its send fails without a frame.)
C8_OneChannel ==
    /\ [](\A c \in Callers :
            /\ ~(task[c].frames > 0 /\ task[c].requests > 0)
            /\ task[c].chan = "ws" => task[c].requests = 0
            /\ task[c].chan = "http" => task[c].frames = 0 /\ ~Outstanding(c))
    /\ [][\A c \in Callers :
            /\ Dispatches(c) =>
                  /\ task'[c].chan = "ws" <=> ws \notin {"none", "closed"}
                  /\ task'[c].chan = "http" <=> ws \in {"none", "closed"}
            /\ task'[c].frames > task[c].frames => ws = "open"]_vars

\* C8 witness: the stream was opened and has closed, and an attempt made
\* after that is on the unary channel.
C8_Witness ==
    /\ ws = "closed"
    /\ \E c \in Callers :
          /\ task[c].pc = "http_req"
          /\ task[c].attempt > 0

\* The stream upgrade was attempted and failed.
UpgradeFailed ==
    cfg.websocket_enabled /\ life \notin {"new", "connecting"} /\ ws = "none"

\* C9: the unary channel exists before the stream upgrade is attempted; a
\* failed upgrade leaves connect() connected with the unary channel open;
\* from then on the stream is never set up again and every attempt of the
\* session is on the unary channel.
C9_UnaryFirstAndFallback ==
    /\ [](life = "connecting" => http = "open" /\ ws = "none")
    /\ [](ws # "none" => http # "none")
    /\ [](UpgradeFailed =>
            /\ queue = EmptyQueue
            /\ \A c \in Callers : task[c].chan # "ws")
    /\ [][/\ (life = "connecting" /\ life' # "connecting" /\ ws' = "none")
              => (life' = "connected" /\ http' = "open")
          /\ UpgradeFailed => (ws' = "none" /\ life' # "connecting")]_vars

\* C9 witness: the upgrade failed and a send made afterwards was answered
\* on the unary channel.
C9_Witness ==
    /\ UpgradeFailed
    /\ \E c \in Callers :
          /\ task[c].pc = "done"
          /\ task[c].chan = "http"
          /\ task[c].cause = "response"

\* A step of call c on the unary channel: its dispatch, or the end of its
\* POST.
UnaryStep(c) ==
    \/ Dispatches(c) /\ task'[c].chan = "http"
    \/ task[c].pc = "http_req" /\ task'[c] # task[c]

\* C10: a unary dispatch, successful or failed, neither inserts into nor
\* removes from the pending table; with the stream disabled by
\* configuration the table is empty in every state.
C10_UnaryLeavesTable ==
    /\ [](~cfg.websocket_enabled => queue = EmptyQueue)
    /\ [][\A c \in Callers : UnaryStep(c) => queue' = queue]_vars

\* C10 witness: a POST is in flight while the table holds an entry of
\* another call.
C10_Witness ==
    \E c, d \in Callers :
        /\ c # d
        /\ task[c].pc = "http_req"
        /\ HasEntry(d)

(* ------------------- claims about one call (C11..C19) ------------------ *)

\* C11: a message with a structural violation handed to send_message is
\* rejected before any network activity: nothing of it is ever put on a
\* channel and no pending entry is made for it.
C11_InvalidNeverDispatched ==
    ValidateMessage(message) # <<>> =>
        /\ retry.sent = <<>>
        /\ queue = EmptyQueue

\* The six structural rules as the contract words them, and the ones a
\* message breaks.
Rules ==
    {TargetRequired, ToolRequired, CoordinationRequired, AgentIdRequired,
     RoleRequired, StageRequired}
Breaks(m, rule) ==
    CASE rule = TargetRequired -> IsNone(m.target)
      [] rule = ToolRequired -> IsNone(m.tool_name)
      [] rule = CoordinationRequired -> IsNone(m.coordination)
      [] rule = AgentIdRequired ->
            /\ ~IsNone(m.target)
            /\ Get(m.target).type = "multiple"
            /\ Get(m.target).agent_ids = <<>>
      [] rule = RoleRequired ->
            /\ ~IsNone(m.target)
            /\ Get(m.target).type = "group"
            /\ IsNone(Get(m.target).role)
      [] rule = StageRequired ->
            /\ ~IsNone(m.coordination)
            /\ Get(m.coordination).mode = "pipeline"
            /\ Get(m.coordination).stages = <<>>
Occurrences(list, x) == Cardinality({i \in DOMAIN list : list[i] = x})

\* C12: validate_message returns exactly one violation for each of the six
\* structural rules the message breaks and nothing else, so the list is
\* empty exactly when no rule is broken.
C12_EveryViolationOnce ==
    ~IsNone(errors) =>
        LET list == Get(errors) IN
        /\ \A i \in DOMAIN list : list[i] \in Rules
        /\ \A rule \in Rules :
              Occurrences(list, rule) = IF Breaks(message, rule) THEN 1 ELSE 0
        /\ (list = <<>>) <=> (\A rule \in Rules : ~Breaks(message, rule))

\* C12 witness: a message that breaks three rules at once was validated
\* and all three violations came back.
C12_Witness ==
    /\ ~IsNone(errors)
    /\ Len(Get(errors)) = 3
    /\ Breaks(message, AgentIdRequired)

\* The configuration C13 names: the defaults of RetryPolicy.
C13_Scenario ==
    /\ cfg.backoff_strategy = "exponential"
    /\ cfg.base_delay = 1
    /\ cfg.max_delay = 30
    /\ cfg.max_retries = 3

\* C13: with exponential backoff every delay slept is
\* min(base_delay * 2^attempt, max_delay); with base_delay 1, max_delay 30
\* and max_retries 3 there are at most 4 attempts, one delay between two
\* consecutive attempts, the delays are 1, 2, 4 in that order, and a call
\* whose every attempt failed with a retryable error ends after the 4th
\* attempt with the error that attempt raised, as it was raised.
C13_ExponentialSchedule ==
    /\ cfg.backoff_strategy = "exponential" =>
          \A i \in DOMAIN retry.slept :
              retry.slept[i] = Min(cfg.base_delay * (2 ^ (i - 1)), cfg.max_delay)
    /\ C13_Scenario =>
          /\ Len(retry.sent) <= 4
          /\ \A i \in DOMAIN retry.slept : retry.slept[i] = <<1, 2, 4>>[i]
          /\ retry.pc = "sleep" => Len(retry.slept) = Len(retry.sent)
          /\ retry.pc \in {"attempt", "returned", "raised"} =>
                Len(retry.slept) = Len(retry.sent) - 1
          /\ (/\ retry.pc = "raised"
              /\ IsException(Get(retry.error))
              /\ ErrorCode(Get(retry.error)) \in cfg.retryable_errors) =>
                /\ Len(retry.sent) = 4
                /\ retry.slept = <<1, 2, 4>>
                /\ Get(retry.error) \in OperationErrors

\* C13 witness: four attempts failed with a retryable error and the last
\* one was raised to the caller after the delays 1, 2, 4.
C13_Witness ==
    /\ C13_Scenario
    /\ retry.pc = "raised"
    /\ retry.attempt = 3
    /\ retry.slept = <<1, 2, 4>>
    /\ ErrorCode(Get(retry.error)) \in cfg.retryable_errors

\* C14: an attempt that fails with a code outside retryable_errors, or on
\* the last allowed attempt, is raised at once, with no delay slept and no
\* further attempt ever made; an attempt is followed by a delay and another
\* attempt only if its code is retryable and retries remain.
C14_PropagateOrRetry ==
    [][/\ (retry.pc = "attempt" /\ retry'.pc = "raised") =>
             /\ LET e == Get(retry'.error) IN
                   \/ ~IsException(e)
                   \/ ErrorCode(e) \notin cfg.retryable_errors
                   \/ retry.attempt = cfg.max_retries
             /\ retry'.slept = retry.slept
             /\ retry'.sent = retry.sent
       /\ (retry.pc = "attempt" /\ retry'.pc = "sleep") =>
             /\ ErrorCode(Get(retry'.error)) \in cfg.retryable_errors
             /\ retry.attempt < cfg.max_retries
             /\ Len(retry'.slept) = Len(retry.slept) + 1
       /\ (retry.pc # "built" /\ Len(retry'.sent) > Len(retry.sent)) =>
             retry.pc = "sleep"
       /\ retry.pc = "raised" => retry' = retry]_vars

\* C14 witness: the first attempt failed with a code that is not retryable
\* while retries remained, and the error was raised with nothing slept.
C14_Witness ==
    /\ retry.pc = "raised"
    /\ retry.attempt = 0
    /\ cfg.max_retries > 0
    /\ IsException(Get(retry.error))
    /\ ErrorCode(Get(retry.error)) \notin cfg.retryable_errors
    /\ retry.slept = <<>>

\* C15 as stated: with the linear strategy the delay slept after failed
\* attempt n is exactly base_delay * (n+1), whatever max_delay is.
C15_LinearUncapped ==
    cfg.backoff_strategy = "linear" =>
        \A i \in DOMAIN retry.slept : retry.slept[i] = cfg.base_delay * i

\* C15 amended: with the linear strategy the delay slept after failed
\* attempt n is min(base_delay * (n+1), max_delay).
C15_LinearCapped ==
    cfg.backoff_strategy = "linear" =>
        \A i \in DOMAIN retry.slept :
            retry.slept[i] = Min(cfg.base_delay * i, cfg.max_delay)

\* C15 witness: a linear delay above max_delay was due and max_delay was
\* slept instead.
C15_Witness ==
    /\ cfg.backoff_strategy = "linear"
    /\ \E i \in DOMAIN retry.slept :
          /\ cfg.base_delay * i > cfg.max_delay
          /\ retry.slept[i] = cfg.max_delay

\* The policy that governs a send according to C16.
GoverningPolicy(m) ==
    IF IsNone(m.retry_policy) THEN Policy(m) ELSE Get(m.retry_policy)

\* C16: the attempts made, the delays slept and the errors retried follow
\* the message's own retry_policy when it has one, the configured policy
\* otherwise.
C16_MessagePolicyGoverns ==
    LET policy == GoverningPolicy(message) IN
    /\ Len(retry.sent) <= policy.max_retries + 1
    /\ \A i \in DOMAIN retry.slept : retry.slept[i] = Delay(policy, i - 1)
    /\ retry.pc = "sleep" =>
          ErrorCode(Get(retry.error)) \in policy.retryable_errors

\* C17: every A2AResponse returned by the client has an error when
\* success is false, has none when success is true, and never carries both
\* a result and an error.
C17_SuccessXorError ==
    retry.pc = "returned" =>
        LET response == Get(retry.response) IN
        /\ ~response.success => ~IsNone(response.error)
        /\ response.success => IsNone(response.error)
        /\ ~(~IsNone(response.result) /\ ~IsNone(response.error))

\* C18: every message put on a channel carries an id, the caller's own
\* when the caller gave one, and a correlation_id, equal to that id when
\* the caller gave no correlation_id.
C18_IdAndCorrelationId ==
    \A i \in DOMAIN retry.sent :
        LET wire == retry.sent[i] IN
        /\ "id" \in DOMAIN wire
        /\ wire["id"] = Get(message.id)
        /\ IsNone(message.correlation_id) =>
              /\ "correlation_id" \in DOMAIN wire
              /\ wire["correlation_id"] = wire["id"]

\* The number of agents a target can resolve to at most, as C19 counts it;
\* None where the target sets no limit.
MaxResolved(target) ==
    CASE target.type = "multiple" -> Some(Len(target.agent_ids))
      [] target.type = "group" -> target.max_agents
      [] OTHER -> None

\* The message is one a high-level helper builds.
BuiltByHelper(m) ==
    \E h \in HelperMessages :
        /\ h.target = m.target
        /\ h.tool_name = m.tool_name
        /\ h.coordination = m.coordination

\* C19: a dispatched message built by a high-level helper that passes
\* validation, has Consensus coordination and sets minimum_participants
\* asks for no more participants than its target can resolve to.
C19_QuorumWithinTarget ==
    (/\ retry.sent # <<>>
     /\ BuiltByHelper(message)
     /\ ValidateMessage(message) = <<>>
     /\ Get(message.coordination).mode = "consensus"
     /\ ~IsNone(Get(message.coordination).minimum_participants)
     /\ ~IsNone(MaxResolved(Get(message.target)))) =>
        Get(Get(message.coordination).minimum_participants)
            <= Get(MaxResolved(Get(message.target)))

(* -------------------- claims about the transport (C25..C30) ------------ *)

\* The listener takes the frame at the head of the stream in this step.
Handles1 == listener /\ listener' /\ inbound # <<>> /\ inbound' = Tail(inbound)

\* C25: when the frame of an attempt goes out on the stream the pending
\* table holds the entry the attempt registered (unless an early response
\* has completed it already), and a response to the message that the
\* listener takes while the call waits with its future pending completes
\* that future: it is not lost.
C25_ResponseFindsEntry ==
    [][\A c \in Callers :
          /\ task'[c].frames > task[c].frames =>
                 HasEntry(c) \/ fut[Handle(c)] = "result"
          /\ (/\ Handles1
              /\ Head(inbound) = Response(task[c].id)
              /\ task[c].pc = "waiting"
              /\ fut[Handle(c)] = "pending") =>
                 fut'[Handle(c)] = "result"]_vars


\* C26: the error that the retry loop classifies, and that send_message
\* raises in the end, is the error that made the attempt fail: a missing
\* stream or session gives A2AConnectionError (A2A_CONNECTION_ERROR), a
\* missed deadline A2ATimeoutError (A2A_TIMEOUT_ERROR), a failed send or
\* request A2AClientError (A2A_CLIENT_ERROR). Violated: _do_send_message
\* wraps every one of them into a new A2AClientError.
C26_TransportErrorClassified ==
    \A c \in Callers :
        AttemptOver(c) =>
            /\ task[c].cause \in {"no_stream", "no_session"} =>
                  task[c].error = Some(A2AConnectionError)
            /\ task[c].cause = "timeout" =>
                  task[c].error = Some(A2ATimeoutError)
            /\ task[c].cause \in {"send_failed", "http_error"} =>
                  Get(task[c].error).code = "A2A_CLIENT_ERROR"


\* The frame matches an entry: it is a response whose correlation_id is a
\* key of the pending table.
Matches(data, q) ==
    /\ data.type = "response"
    /\ ~IsNone(data.correlation_id)
    /\ Get(data.correlation_id) \in DOMAIN q

\* C27: a future receives a result only in a step in which the listener
\* takes a response frame whose correlation_id is the key of the entry
\* holding that future; a step in which the listener takes any other frame
\* (not JSON, not an object, another type, no or an unknown
\* correlation_id, a late response) leaves the pending table and every
\* future as they are, and the listener goes on unless the stream is
\* closed.
C27_OnlyMatchingResponseFulfils ==
    [][/\ \A c \in Callers :
             (fut[Handle(c)] # "result" /\ fut'[Handle(c)] = "result") =>
                /\ listener /\ inbound # <<>>
                /\ Matches(Head(inbound), queue)
                /\ queue[Get(Head(inbound).correlation_id)] = Handle(c)
       /\ (/\ listener /\ inbound # <<>> /\ inbound' = Tail(inbound)
           /\ ~Matches(Head(inbound), queue)) =>
                /\ queue' = queue
                /\ fut' = fut
                /\ listener' \/ ws = "closed"]_vars

\* C27 witness: the listener runs with a frame that matches nothing at the
\* head of the stream while a call waits, its entry in the table and its
\* future pending.
C27_Witness ==
    /\ listener
    /\ inbound # <<>>
    /\ ~Matches(Head(inbound), queue)
    /\ Head(inbound).type # "response"
    /\ ~IsNone(Head(inbound).correlation_id)
    /\ \E c \in Callers :
          /\ task[c].pc = "waiting"
          /\ HasEntry(c)
          /\ Head(inbound).correlation_id = Some(task[c].id)
          /\ fut[Handle(c)] = "pending"


\* C30: once a send_message call has terminated, for whatever reason, the
\* pending table holds no entry that the call created. Violated when the
\* calling task is cancelled while it waits: the entry stays.
C30_NoEntryAfterCall ==
    \A c \in Callers :
        task[c].pc = "done" => Handle(c) \notin Held(queue)


\* C29: when the stream send of an attempt raises, the step that raises
\* the error to the retry loop leaves no entry under the message id and
\* removes nothing but the entry the attempt registered, and a retry of
\* the message after such a failure starts from a table without an entry
\* under its id.
C29_SendFailureRestoresTable ==
    [][\A c \in Callers :
          /\ (task[c].pc = "ws_send" /\ task'[c].cause = "send_failed"
              /\ AttemptOver(c)') =>
                /\ task[c].id \notin DOMAIN queue'
                /\ Lookup(queue, task[c].id) \in {Handle(c), NoHandle}
                /\ \A k \in DOMAIN queue \ {task[c].id} :
                      Lookup(queue', k) = queue[k]
          /\ (task[c].pc = "sleep" /\ task[c].cause = "send_failed"
              /\ Dispatches(c)) =>
                task[c].id \notin DOMAIN queue]_vars


\* C28: the retry loop ends whenever every attempt ends: the operation is
\* invoked at least once and at most max_retries + 1 times, one delay is
\* slept between two attempts and so at most max_retries in all, and the
\* call ends by returning the response of the one attempt that succeeded,
\* the last one made, or by raising the error of the last attempt made.
C28_RetryLoopTerminates ==
    /\ [](/\ Len(retry.sent) <= cfg.max_retries + 1
          /\ Len(retry.slept) <= cfg.max_retries
          /\ (retry.pc \in {"attempt", "returned", "raised"}) =>
                (Len(retry.sent) = retry.attempt + 1
                    /\ Len(retry.slept) = retry.attempt)
          /\ (retry.pc = "returned") => ~IsNone(retry.response)
          /\ (retry.pc = "raised") => ~IsNone(retry.error))
    /\ [][/\ (retry.pc # retry'.pc /\ retry'.pc \in {"returned", "raised"}) =>
                (retry.pc = "attempt" /\ retry'.sent = retry.sent
                    /\ retry'.slept = retry.slept)
          /\ (retry.pc \in {"returned", "raised"}) => retry' = retry]_vars
    /\ <>(retry.pc \in {"returned", "raised"})

\* C28 witness: the call ended by raising after max_retries + 1 attempts
\* and max_retries delays under the default policy of three retries.
C28_Witness ==
    /\ retry.pc = "raised"
    /\ cfg.max_retries = DefaultMaxRetries
    /\ Len(retry.sent) = DefaultMaxRetries + 1
    /\ Len(retry.slept) = DefaultMaxRetries


(* ------------- claims about resolution and coordination (C20..C24) ----- *)

\* The engine has resolved the target of its send.
HasResolved == engine.pc \in {"resolved", "collecting", "stage"}
                  \/ (engine.pc = "done" /\ engine.resolved # <<>>)

\* The engine has dispatched the message of its send.
HasDispatched == engine.pc \in {"collecting", "done"} /\ engine.dispatched # <<>>

\* The place at which x is first seen in list.
FirstSeen(list, x) == CHOOSE i \in DOMAIN list :
                          list[i] = x /\ \A j \in 1..(i - 1) : list[j] # x

\* C20: for a Multiple target with a non-empty id list, resolution returns
\* exactly the given ids, each once, in the order in which they are first
\* seen in the list, and when the message is dispatched it is dispatched
\* to exactly those.
C20_MultipleDeduplicated ==
    (/\ engine.pc \notin {"idle", "new"}
     /\ engine.target.type = "multiple"
     /\ engine.target.agent_ids # <<>>) =>
        LET given == engine.target.agent_ids
            ids == engine.resolved
        IN
        /\ HasResolved
        /\ {ids[i] : i \in DOMAIN ids} = {given[i] : i \in DOMAIN given}
        /\ \A i, j \in DOMAIN ids :
              i < j => /\ ids[i] # ids[j]
                       /\ FirstSeen(given, ids[i]) < FirstSeen(given, ids[j])
        /\ (engine.pc = "collecting" \/ HasDispatched) => engine.dispatched = ids

\* C20 witness: the list a1, a2, a1 was resolved and the message
\* dispatched to a1 and a2.
C20_Witness ==
    /\ engine.pc = "collecting"
    /\ engine.target.type = "multiple"
    /\ engine.target.agent_ids = <<"a1", "a2", "a1">>
    /\ engine.dispatched = <<"a1", "a2">>

\* C21: for a Group target and any directory snapshot, resolution returns
\* at most max_agents identifiers (any number when max_agents is absent),
\* each of them the identity of an agent of the snapshot that has the
\* role, has the wanted capabilities if any are given and has the wanted
\* status if one is given.
C21_GroupWithinFilterAndLimit ==
    (/\ engine.pc \notin {"idle", "new"}
     /\ engine.target.type = "group") =>
        LET target == engine.target
            ids == engine.resolved
        IN
        /\ ~IsNone(target.max_agents) => Len(ids) <= Get(target.max_agents)
        /\ \A i \in DOMAIN ids :
              \E a \in engine.snapshot :
                  /\ a.id = ids[i]
                  /\ a.role = target.role
                  /\ ~IsNone(target.capabilities) =>
                        Get(target.capabilities) \subseteq a.capabilities
                  /\ ~IsNone(target.status) => a.status = Get(target.status)

\* C21 witness: three agents of the snapshot pass the filter, one of them
\* does not have the status that another query asks for, and resolution
\* under max_agents = 2 returned two of them.
C21_Witness ==
    /\ engine.pc = "resolved"
    /\ engine.target.type = "group"
    /\ engine.target.max_agents = Some(2)
    /\ Len(engine.resolved) = 2
    /\ Cardinality({a \in engine.snapshot : a.role = engine.target.role}) = 3

\* The number of responses received with the given success flag.
Count(responses, success) ==
    Cardinality({i \in DOMAIN responses : responses[i].success = success})

\* C22: Broadcast with aggregation `all` decides only when every agent the
\* message was dispatched to has responded; with an unrecoverable error
\* among the responses the call fails if partial_success is false, and if
\* it is true the call returns the agents that succeeded together with the
\* recorded failures; without any error it succeeds.
C22_BroadcastAllAggregates ==
    (/\ engine.pc \notin {"idle", "new"}
     /\ engine.coordination.mode = "broadcast"
     /\ engine.coordination.aggregation = "all"
     /\ HasDispatched) =>
        /\ engine.pc = "done" <=> Len(engine.responses) = Len(engine.dispatched)
        /\ engine.pc = "done" =>
            LET out == Get(engine.outcome)
                failed == Count(engine.responses, FALSE)
            IN
            /\ out.success <=> (failed = 0 \/ engine.coordination.partial_success)
            /\ Len(out.successes) = Count(engine.responses, TRUE)
            /\ Len(out.failures) = failed
            /\ \A i \in DOMAIN engine.responses :
                  LET r == engine.responses[i] IN
                  IF r.success
                  THEN \E j \in DOMAIN out.successes : out.successes[j] = r.agent
                  ELSE \E j \in DOMAIN out.failures : out.failures[j] = r.agent

\* C22 witness: of three agents one answered with an unrecoverable error
\* and, partial_success being true, the call returned two successes and
\* one recorded failure.
C22_Witness ==
    /\ engine.pc = "done"
    /\ engine.coordination.mode = "broadcast"
    /\ engine.coordination.partial_success
    /\ Len(engine.dispatched) = 3
    /\ Get(engine.outcome).success
    /\ Len(Get(engine.outcome).successes) = 2
    /\ Len(Get(engine.outcome).failures) = 1

\* C23: Consensus majority with minimum_participants unset: the call has
\* succeeded exactly when more than half of the agents the message was
\* dispatched to have responded successfully, whatever the order of the
\* responses and whether or not the others have responded; it never goes
\* on waiting once that is so, and when it ends without it, it ends at
\* voting_timeout with ConsensusTimeout.
C23_MajorityQuorum ==
    (/\ engine.pc \notin {"idle", "new"}
     /\ engine.coordination.mode = "consensus"
     /\ IsNone(engine.coordination.minimum_participants)
     /\ HasDispatched) =>
        LET reached == 2 * Count(engine.responses, TRUE) > Len(engine.dispatched)
        IN
        /\ reached <=> (engine.pc = "done" /\ Get(engine.outcome).success)
        /\ (engine.pc = "done" /\ ~reached) =>
              Get(engine.outcome).error = "ConsensusTimeout"

\* C23 witness: of five agents three have answered with a success, two
\* have not answered, and the call has succeeded.
C23_Witness ==
    /\ engine.pc = "done"
    /\ engine.coordination.mode = "consensus"
    /\ IsNone(engine.coordination.minimum_participants)
    /\ Len(engine.dispatched) = 5
    /\ Len(engine.responses) = 3
    /\ Get(engine.outcome).success

\* C24: a pipeline executes its stages strictly in list order (a stage is
\* repeated only under failure_strategy retry, and none is run before the
\* one before it); under failure_strategy skip every stage is executed
\* once, a stage has a null output exactly when it failed, and the
\* pipeline completes whatever failed.
C24_PipelineInOrderSkip ==
    (/\ engine.pc \notin {"idle", "new"}
     /\ engine.coordination.mode = "pipeline"
     /\ engine.pc \in {"stage", "done"}) =>
        LET log == engine.log
            strategy == engine.coordination.failure_strategy
            n == Len(engine.coordination.stages)
        IN
        /\ log # <<>> => log[1].stage = 1
        /\ \A i \in DOMAIN log : i > 1 =>
              \/ log[i].stage = log[i - 1].stage + 1
              \/ /\ log[i].stage = log[i - 1].stage
                 /\ strategy = "retry"
                 /\ ~log[i - 1].success
        /\ strategy = "skip" =>
              /\ \A i \in DOMAIN log : log[i].stage = i
              /\ Len(engine.outputs) = Len(log)
              /\ \A i \in DOMAIN log : IsNone(engine.outputs[i]) <=> ~log[i].success
              /\ engine.pc = "done" <=> Len(log) = n
              /\ engine.pc = "done" => Get(engine.outcome).success

\* C24 witness: a pipeline of three stages under skip whose second stage
\* failed has completed, the second output null and the third stage
\* executed.
C24_Witness ==
    /\ engine.pc = "done"
    /\ engine.coordination.mode = "pipeline"
    /\ engine.coordination.failure_strategy = "skip"
    /\ Len(engine.log) = 3
    /\ ~engine.log[2].success
    /\ engine.log[3].success
    /\ engine.outputs = <<Some("output"), None, Some("output")>>
    /\ Get(engine.outcome).success


(* --------------------- further claims (C31..C39) ----------------------- *)

\* C31: while a stream send of a message is outstanding with its entry in
\* the table, the correlation_id the response to it carries is the key of
\* that entry, so that the listener finds and fulfils it; this for a
\* message whose own correlation_id differs from its id as for any other.
\* Violated: the entry is stored under message.id and looked up under the
\* frame's correlation_id.
C31_ResponseKeyIsEntryKey ==
    \A c \in Callers :
        (task[c].pc = "waiting" /\ HasEntry(c)) =>
            Lookup(queue, Get(CorrelatedResponse(c).correlation_id)) = Handle(c)


\* The stream was closed by the remote side or by a stream error, not by
\* disconnect.
RemotelyClosed == ws = "closed" /\ life = "connected"

\* C32: a stream send that is outstanding when the stream has been closed
\* remotely ends (a stream attempt of its call is no longer outstanding)
\* with its entry removed, and every attempt started while the stream is
\* closed goes to the unary channel. Violated: a send whose execution
\* context has no timeout waits for ever.
C32_PendingEndAfterRemoteClose ==
    /\ \A c \in Callers :
          (RemotelyClosed /\ Outstanding(c)) ~> (~Outstanding(c) /\ ~HasEntry(c))
    /\ [][\A c \in Callers :
            (ws = "closed" /\ Dispatches(c)) => task'[c].chan = "http"]_vars


\* C33: once disconnect has completed the pending table is and stays
\* empty and no call waits on a pending future; a call that was in flight
\* or asleep between two attempts ends, and unless its response had been
\* delivered before, it ends with an error. Violated: a call whose entry
\* another call with the same id has replaced is not reached by
\* disconnect and goes on waiting.
C33_NothingPendingAfterDisconnect ==
    /\ [](life = "disconnected" =>
            /\ queue = EmptyQueue
            /\ \A c \in Callers :
                  task[c].pc = "waiting" => fut[Handle(c)] # "pending")
    /\ [][(life = "disconnected" /\ life' = "disconnected") =>
            \A c \in Callers :
                (task[c].pc \notin {"idle", "done"} /\ task'[c].pc = "done") =>
                    \/ ~IsNone(task'[c].error)
                    \/ task[c].pc = "waiting" /\ fut[Handle(c)] = "result"]_vars
    /\ \A c \in Callers :
          (life = "disconnected" /\ task[c].pc # "idle") ~> (task[c].pc = "done")


\* The keys under which the table holds a future of call c.
EntriesOf(c) == {k \in DOMAIN queue : queue[k] = Handle(c)}

\* C34: every attempt of one send_message call goes out with the same
\* message id and the same timestamp, those fixed before the first
\* attempt; the table never holds more than one entry of the call, and
\* when an attempt of the call starts the table holds none, the attempt
\* before having removed its own.
C34_OneIdOneEntry ==
    /\ [](/\ \A i \in DOMAIN retry.sent :
                /\ retry.sent[i]["id"] = Get(message.id)
                /\ retry.sent[i]["timestamp"] = Get(message.timestamp)
                /\ retry.sent[i] = retry.sent[1]
          /\ task["c1"].pc # "idle" =>
                /\ task["c1"].id = Get(message.id)
                /\ Len(retry.sent) = task["c1"].attempt + 1
          /\ Cardinality(EntriesOf("c1")) <= 1)
    /\ [][/\ Dispatches("c1") => EntriesOf("c1") = {}
          /\ retry.sent # <<>> => message' = message]_vars

\* C34 witness: after a first stream attempt that timed out, the second
\* attempt of the call waits on the stream, its one entry in the table,
\* and two equal frames have gone out.
C34_Witness ==
    /\ task["c1"].pc = "waiting"
    /\ task["c1"].attempt = 1
    /\ EntriesOf("c1") = {task["c1"].id}
    /\ Len(retry.sent) = 2
    /\ removedBy["c1"] = <<>>


\* The outbound messages of the current attempt of call c: stream frames
\* and unary requests.
Emitted(c) == task[c].frames + task[c].requests

\* C35 as stated: every attempt that is over has emitted exactly one
\* outbound message. Violated: an attempt that fails before anything is
\* sent has emitted none.
C35_ExactlyOneMessagePerAttempt ==
    \A c \in Callers : AttemptOver(c) => Emitted(c) = 1

\* The attempt failed before anything was sent: no stream or session, a
\* closed session, or a stream send that raised.
FailedBeforeSending(c) ==
    task[c].cause \in {"no_stream", "no_session", "session_closed", "send_failed"}

\* C35, amended: an attempt emits at most one outbound message, and
\* exactly one unless it fails before anything is sent; it yields at most
\* one response, and only after its message went out.
C35_AtMostOneMessagePerAttempt ==
    /\ [](\A c \in Callers :
            /\ Emitted(c) <= 1
            /\ AttemptOver(c) => (Emitted(c) = 0 <=> FailedBeforeSending(c))
            /\ (AttemptOver(c) /\ task[c].cause = "response") => Emitted(c) = 1)
    /\ [][\A c \in Callers :
            (task'[c] # task[c] /\ task'[c].cause = "response") =>
                /\ task[c].pc \in {"waiting", "http_req"}
                /\ AttemptOver(c)'
                /\ Emitted(c) = 1]_vars

\* C35 witness: one call's attempt has failed in the stream send with
\* nothing sent, and another call's attempt has sent its one frame and
\* returned its one response.
C35_Witness ==
    \E c, d \in Callers :
        /\ AttemptOver(c) /\ task[c].cause = "send_failed" /\ Emitted(c) = 0
        /\ AttemptOver(d) /\ task[d].cause = "response"
        /\ task[d].frames = 1 /\ task[d].requests = 0


\* The response of the call is a failed one whose error code is one of
\* the retryable codes of the policy.
RetryableFailure(r) ==
    /\ ~IsNone(r.response)
    /\ ~Get(r.response).success
    /\ ~IsNone(Get(r.response).error)
    /\ Get(Get(r.response).error).code \in Policy(message).retryable_errors

\* C36: an attempt that returns a response ends the call with that
\* response as its value, whatever its success flag and error code: no
\* delay is slept and no further attempt is made after it; a delay is
\* slept only after an attempt that raised.
C36_FailedResponseNotRetried ==
    /\ [](~IsNone(retry.response) =>
            /\ retry.pc = "returned"
            /\ Len(retry.sent) = Len(retry.slept) + 1)
    /\ [][/\ (retry.pc = "attempt" /\ ~IsNone(retry'.response)) =>
                /\ retry'.pc = "returned"
                /\ retry'.attempt = retry.attempt
                /\ retry'.slept = retry.slept
                /\ retry'.sent = retry.sent
          /\ retry.pc = "returned" => retry' = retry
          /\ retry'.slept # retry.slept =>
                /\ retry.pc = "attempt"
                /\ IsNone(retry'.response)
                /\ ~IsNone(retry'.error)
                /\ IsException(Get(retry'.error))]_vars

\* C36 witness: the first attempt returned a failed response with a
\* retryable code under a policy that allows retries, and the call is
\* over with that response.
C36_Witness ==
    /\ retry.pc = "returned"
    /\ RetryableFailure(retry)
    /\ retry.attempt = 0
    /\ Policy(message).max_retries > 0
    /\ retry.slept = <<>>


\* The delays a call would sleep under policy p if every attempt up to
\* the last retry raised a retryable error.
Schedule(p) == [a \in 0 .. p.max_retries - 1 |-> Delay(p, a)]

\* C37: the i-th delay slept is base_delay times a positive whole factor
\* that grows with the attempt number, cut off at max_delay: it never
\* exceeds max_delay and no delay is shorter than the one before it; under
\* 'custom' the delays are those of 'linear'.
C37_DelayBoundedMonotone ==
    LET p == Policy(message)
        linear == [p EXCEPT !.backoff_strategy = "linear"]
    IN /\ \A i \in DOMAIN retry.slept :
            /\ retry.slept[i] <= p.max_delay
            /\ retry.slept[i] > 0
            /\ \E k \in i .. 2 ^ (i - 1) :
                    retry.slept[i] = Min(p.base_delay * k, p.max_delay)
            /\ \A j \in DOMAIN retry.slept : i <= j => retry.slept[i] <= retry.slept[j]
            /\ p.backoff_strategy = "custom" => retry.slept[i] = Delay(linear, i - 1)
       /\ \A a \in DOMAIN Schedule(p) :
            /\ Schedule(p)[a] <= p.max_delay
            /\ a > 0 => Schedule(p)[a - 1] <= Schedule(p)[a]
            /\ p.backoff_strategy = "custom" => Schedule(p)[a] = Schedule(linear)[a]

\* C37 witness: under 'custom' three delays have been slept, the second
\* longer than the first and the last two cut off at max_delay.
C37_Witness ==
    /\ cfg.backoff_strategy = "custom"
    /\ Len(retry.slept) = 3
    /\ retry.slept[1] = cfg.base_delay
    /\ retry.slept[1] < retry.slept[2]
    /\ retry.slept[2] = cfg.max_delay
    /\ retry.slept[3] = cfg.max_delay
    /\ cfg.base_delay * 2 > cfg.max_delay


\* The message as its builder made it, before send_message set the id
\* and the timestamp.
AsBuilt(m) == [m EXCEPT !.id = None, !.timestamp = None]

\* C38: a message built by a high-level helper and handed to send_message
\* has no violation under validate_message. Violated: initiate_consensus
\* with no participants builds a Multiple target with no agent id.
C38_HelperMessagesValid ==
    (retry.sent # <<>> /\ AsBuilt(message) \in HelperMessages) =>
        ValidateMessage(message) = <<>>


\* send_message is able to dispatch: an attempt would put the message on
\* the open stream or on the open unary channel.
AbleToDispatch == UseWebsocket \/ http = "open"

\* C39: between connect and disconnect is_connected() is true whenever
\* send_message is able to dispatch, and whenever a call has a request
\* out on the unary channel. Violated: with the stream enabled,
\* is_connected() is false once the upgrade has failed or the stream has
\* closed, while messages go out over the unary channel.
C39_ConnectedWhileAbleToDispatch ==
    life = "connected" =>
        /\ AbleToDispatch => IsConnected
        /\ \A c \in Callers : (task[c].pc = "http_req" /\ http = "open") => IsConnected

============================================================================
